---- MODULE Spec2Model ----
(***************************************************************************)
(* Verification model of the transaction coordinator of c4Database         *)
(* (src/C/c4Database.cc), the Transaction state machine                    *)
(* (src/CBForest/Storage/Database.hh) and the vector-search planner        *)
(* (src/LiteCore/Query/QueryParser+VectorSearch.cc).                       *)
(***************************************************************************)
EXTENDS Integers, Sequences, FiniteSets, TLC

\* ------------------------------------------------------------------ bounds
MaxLevel == 2        \* deepest nesting of beginTransaction explored
MaxSeq == 2          \* sequences a KeyStore hands out before writes fault
MaxFaults == 1       \* injected engine faults per behaviour
MaxCalls == 5        \* abort()/flushWAL() calls made on one Transaction
MaxRecords == 2      \* records in the KeyStore a document enumerator runs over
MaxRefs == 2         \* references held on one c4Database handle

\* ------------------------------------------------------------- the universe
Threads == {"T1", "T2"}
Handles == {"h1", "h2"}          \* two c4Database handles opened on ONE file
\* the handles a thread calls: T1 and T2 share h1, T2 alone uses h2
HandlesOf(t) == IF t = "T1" THEN {"h1"} ELSE Handles
NoThread == "nobody"
NoHandle == "nohandle"
Keys == {"k1"}
Null == "null"                   \* slice::null
Metas == {Null, "m"}
Bodies == {Null, "b"}
NoDoc == [exists |-> FALSE]      \* Document for which exists() is false

\* enum Transaction::state
kNoOp == "kNoOp"
kAbort == "kAbort"
kCommit == "kCommit"
kCommitManualWALFlush == "kCommitManualWALFlush"
TxnStates == {kNoOp, kAbort, kCommit, kCommitManualWALFlush}
NULL == "NULL"                   \* c4Database::_transaction when no Transaction
nullptr == [ptr |-> "null"]      \* a null pointer to an object modelled as a record

VARIABLES
    txLevel,        \* c4Database::_transactionLevel, per handle
    txOwner,        \* owner of c4Database::_transactionMutex, per handle
    txCount,        \* recursion count of _transactionMutex, per handle
    transaction,    \* state of *c4Database::_transaction, or NULL, per handle
    fileTxn,        \* Database::File: the handle whose Transaction holds the file
    store,          \* KeyStore contents (uncommitted writes included)
    lastSequence,   \* KeyStore::lastSequence()
    saved,          \* the engine's rollback image: KeyStore at physical begin
    nestedAbort,    \* history: some inner endTransaction(false) in this nest
    undone,         \* history: writes the last outermost endTransaction discarded
    pc,             \* per thread: where it stands inside a blocking call
    pcH,            \* per thread: the handle of that call
    ret,            \* result of the last completed C call
    faults,         \* engine faults injected so far
    crashed,        \* the process dereferenced a null Transaction and died
    commitLog,      \* history: the sequences assigned by committed mutations,
                    \* in the order they were committed
    pendingLog,     \* history: the sequences assigned in the open Transaction
    committedDoc,   \* history: per key, what the last committed write put there
    pendingDoc,     \* history: per key, the last write of the open Transaction
    tstate,         \* Transaction::_state of a Transaction driven on its own
    tcalls,         \* history: the methods called on it since construction
    query,          \* the SELECT dictionary handed to the query parser
    qclass,         \* what nonHybridWhereClause said of its WHERE clause
    qres,           \* what addVectorSearchJoins made of it
    qsql,           \* what the registered join callbacks wrote
    qdist,          \* what writeVectorDistanceFn made of the calls of the query
    erecs,          \* the records of the default KeyStore, in key order
    eflags,         \* C4EnumeratorOptions::flags the enumerator was made with
    esince,         \* its `since` (by-sequence constructor), or NoSince
    eimpl,          \* C4DocEnumerator::_impl: the RecordEnumerator, or NULL
    eret,           \* what the last call on the enumerator returned
    eended,         \* history: how the enumeration ended first:
                    \* "closed" by close(), "exhausted" by next() returning false
    eyielded,       \* history: the keys of the records next() stopped on
    dbOpen,         \* per handle: its Database is open (not closed or deleted)
    refCount,       \* per handle: RefCounted reference count; 0 once freed
    fileExists,     \* the database file is on disk
    compacted,      \* the file went through Database::compact()
    encKey,         \* the encryption key the file is written with
    tempDir,        \* sqlite3_temp_directory
    tpc,            \* per thread: where it stands inside c4_setTempDir
    tpath,          \* per thread: the path it is setting
    tret,           \* per thread: what its last c4_setTempDir returned
    tsucceeded,     \* history: how many c4_setTempDir calls returned true
    indexed,        \* the documents whose vector is in the lazy index
    updater,        \* the C4IndexUpdater of the update in progress, or nullptr
    uret            \* what the last call on the index or the updater returned

ledgerVars == <<commitLog, pendingLog, committedDoc, pendingDoc>>
dbVars == <<txLevel, txOwner, txCount, transaction, fileTxn, store, lastSequence,
            saved, nestedAbort, undone, pc, pcH, ret, faults, crashed, ledgerVars>>

txnVars == <<tstate, tcalls>>
queryVars == <<query, qclass, qres, qsql, qdist>>
enumVars == <<erecs, eflags, esince, eimpl, eret, eended, eyielded>>
lifeVars == <<dbOpen, refCount, fileExists, compacted, encKey>>
tempVars == <<tempDir, tpc, tpath, tret, tsucceeded>>
lazyVars == <<indexed, updater, uret>>
vars == <<dbVars, txnVars, queryVars, enumVars, lifeVars, tempVars, lazyVars>>

\* ------------------------------------------------------ Transaction (class)
\* abort() that forgets to arm the rollback
abortNoEffect(s) == s

\* abort() without its test for kNoOp
abortFromAnyState(s) == kAbort

\* Transaction::abort()
abort(s) == IF s # kNoOp THEN kAbort ELSE s

\* flushWAL() with the test of abort(): every state but kNoOp changes
flushWALFromAnyState(s) == IF s # kNoOp THEN kCommitManualWALFlush ELSE s

\* Transaction::flushWAL()
flushWAL(s) == IF s = kCommit THEN kCommitManualWALFlush ELSE s

\* ----------------------------------------------------------------- helpers
NoSaved == [store |-> [k \in Keys |-> NoDoc], seq |-> 0]
Idle == "idle"
Ret(op, ok, err) == [op |-> op, ok |-> ok, err |-> err]

\* what the callers of the C API wrote, kept beside the KeyStore
NotFound == [found |-> FALSE]            \* no record under the key
Untouched == [written |-> FALSE]         \* the open Transaction did not write the key
RawDoc(key, meta, body) == [found |-> TRUE, key |-> key, meta |-> meta, body |-> body]

\* std::recursive_mutex::lock() by thread t may return
CanLock(h, t) == txOwner[h] \in {NoThread, t}

\* the mutex of handle h after thread t's lock count changed by d
OwnerAfter(h, t, d) == IF txCount[h] + d = 0 THEN NoThread ELSE t

DbInit ==
    /\ txLevel = [h \in Handles |-> 0]
    /\ txOwner = [h \in Handles |-> NoThread]
    /\ txCount = [h \in Handles |-> 0]
    /\ transaction = [h \in Handles |-> NULL]
    /\ fileTxn = NoHandle
    /\ store = [k \in Keys |-> NoDoc]
    /\ lastSequence = 0
    /\ saved = NoSaved
    /\ nestedAbort = [h \in Handles |-> FALSE]
    /\ undone = 0
    /\ pc = [t \in Threads |-> Idle]
    /\ pcH = [t \in Threads |-> NoHandle]
    /\ ret = Ret("none", TRUE, "none")
    /\ faults = 0
    /\ crashed = FALSE
    /\ commitLog = <<>>
    /\ pendingLog = <<>>
    /\ committedDoc = [k \in Keys |-> NotFound]
    /\ pendingDoc = [k \in Keys |-> Untouched]

\* ------------------------------------------------------- storage engine
\* KeyStore::set(key, meta, body, txn): the record gets the next sequence
KeyStoreSet(st, seq, k, m, b) ==
    [store |-> [st EXCEPT ![k] = [exists |-> TRUE, meta |-> m, body |-> b,
                                  sequence |-> seq + 1]],
     seq |-> seq + 1]

\* KeyStore::del(key, txn): removes the record if there is one
KeyStoreDel(st, seq, k) ==
    IF st[k].exists THEN [store |-> [st EXCEPT ![k] = NoDoc], seq |-> seq + 1]
                    ELSE [store |-> st, seq |-> seq]

\* Database::beginTransaction that does not wait for the file to be free
DatabaseBeginTransactionNoWait(h) ==
    /\ fileTxn' = h
    /\ saved' = [store |-> store, seq |-> lastSequence]

\* Transaction::Transaction(Database*) -> Database::beginTransaction: waits
\* until no Transaction is attached to the file, then attaches this one and
\* opens the engine transaction.
DatabaseBeginTransaction(h) ==
    /\ fileTxn = NoHandle
    /\ fileTxn' = h
    /\ saved' = [store |-> store, seq |-> lastSequence]

\* Transaction::~Transaction() -> Database::endTransaction: commits or rolls
\* back according to the state, detaches the Transaction from the file.
\* throws: the engine reports a fault while committing.
DatabaseEndTransaction(final, st, seq, throws) ==
    /\ fileTxn' = NoHandle
    /\ saved' = NoSaved
    /\ IF final = kAbort \/ (final # kNoOp /\ throws)
          THEN store' = saved.store /\ lastSequence' = saved.seq
          ELSE store' = st /\ lastSequence' = seq

\* --------------------------------------------------------- c4Database class
\* beginTransaction that counts the level without locking the mutex
beginTransactionNoLock(t, h) ==
    /\ CanLock(h, t)
    /\ txLevel[h] < MaxLevel
    /\ txLevel' = [txLevel EXCEPT ![h] = @ + 1]
    /\ UNCHANGED <<txOwner, txCount, transaction, fileTxn, store, lastSequence, saved,
                   nestedAbort, undone, faults, crashed>>

\* c4Database::beginTransaction, first half: lock the recursive mutex and
\* count the level.  Level 1 continues at `new Transaction` (NewTransaction).
beginTransaction(t, h) ==
    /\ CanLock(h, t)
    /\ txLevel[h] < MaxLevel
    /\ txOwner' = [txOwner EXCEPT ![h] = t]
    /\ txCount' = [txCount EXCEPT ![h] = @ + 1]
    /\ txLevel' = [txLevel EXCEPT ![h] = @ + 1]
    /\ UNCHANGED <<transaction, fileTxn, store, lastSequence, saved, nestedAbort,
                   undone, faults, crashed>>

\* c4Database::beginTransaction, second half: _transaction = new Transaction
newTransaction(t, h) ==
    /\ DatabaseBeginTransaction(h)
    /\ transaction' = [transaction EXCEPT ![h] = kCommit]
    /\ nestedAbort' = [nestedAbort EXCEPT ![h] = FALSE]
    /\ undone' = 0
    /\ UNCHANGED <<txLevel, txOwner, txCount, store, lastSequence, faults, crashed>>

\* the constructor throws: the exception leaves beginTransaction after the
\* mutex was locked and the level incremented
newTransactionThrows(t, h) ==
    /\ faults < MaxFaults
    /\ faults' = faults + 1
    /\ UNCHANGED <<txLevel, txOwner, txCount, transaction, fileTxn, store,
                   lastSequence, saved, nestedAbort, undone, crashed>>

\* c4Database::inTransaction(), once it holds _transactionMutex
inTransaction(h) == txLevel[h] > 0

EndResults == {"false", "true", "throw", "crash"}

\* c4Database::endTransaction(commit) run by thread t on handle h while the
\* KeyStore holds (st, seq).  res: "false" (level was 0), "true", "throw"
\* (delete t threw, the unlock of line 120 is skipped), "crash" (t->abort()
\* on a null _transaction; undefined behaviour, may also go unnoticed).
endTransaction(t, h, commit, st, seq, res) ==
    LET tx == transaction[h]
        final == IF commit THEN tx ELSE abort(tx)
    IN
    /\ CanLock(h, t)
    /\ IF txLevel[h] = 0 THEN
            /\ res = "false"
            /\ store' = st /\ lastSequence' = seq
            /\ UNCHANGED <<txLevel, txOwner, txCount, transaction, fileTxn, saved,
                           nestedAbort, undone, faults, crashed>>
       ELSE IF txLevel[h] > 1 THEN
            /\ res = "true"
            /\ txLevel' = [txLevel EXCEPT ![h] = @ - 1]
            /\ txCount' = [txCount EXCEPT ![h] = @ - 1]
            /\ txOwner' = [txOwner EXCEPT ![h] = OwnerAfter(h, t, -1)]
            /\ nestedAbort' = [nestedAbort EXCEPT ![h] = @ \/ ~commit]
            /\ store' = st /\ lastSequence' = seq
            /\ UNCHANGED <<transaction, fileTxn, saved, undone, faults, crashed>>
       ELSE IF tx = NULL THEN
            /\ res \in IF commit THEN {"true"} ELSE {"true", "crash"}
            /\ txLevel' = [txLevel EXCEPT ![h] = 0]
            /\ crashed' = (res = "crash")
            /\ txCount' = [txCount EXCEPT ![h] = IF res = "crash" THEN @ ELSE @ - 1]
            /\ txOwner' = [txOwner EXCEPT ![h] =
                              IF res = "crash" THEN @ ELSE OwnerAfter(h, t, -1)]
            /\ store' = st /\ lastSequence' = seq
            /\ UNCHANGED <<transaction, fileTxn, saved, nestedAbort, undone, faults>>
       ELSE
            /\ res \in IF final \in {kCommit, kCommitManualWALFlush} /\ faults < MaxFaults
                          THEN {"true", "throw"} ELSE {"true"}
            /\ txLevel' = [txLevel EXCEPT ![h] = 0]
            /\ transaction' = [transaction EXCEPT ![h] = NULL]
            /\ DatabaseEndTransaction(final, st, seq, res = "throw")
            /\ faults' = IF res = "throw" THEN faults + 1 ELSE faults
            /\ txCount' = [txCount EXCEPT ![h] = IF res = "throw" THEN @ ELSE @ - 1]
            /\ txOwner' = [txOwner EXCEPT ![h] =
                              IF res = "throw" THEN t ELSE OwnerAfter(h, t, -1)]
            /\ nestedAbort' = [nestedAbort EXCEPT ![h] = FALSE]
            /\ undone' = seq - lastSequence'
            /\ UNCHANGED crashed

\* --------------------------------------------------------------- ledger
\* The ledger after a call that ran endTransaction(commit) with result res on
\* handle h, the open Transaction having written (log, docs) so far: when
\* the call ended the Transaction, its writes are the committed ones if the
\* caller asked to commit and the call returned true, and are forgotten if not.
Ledger(h, commit, res, log, docs) ==
    LET destroyed == txLevel[h] = 1 /\ transaction[h] # NULL /\ res \in {"true", "throw"}
        committed == commit /\ res = "true"
    IN IF destroyed
          THEN /\ pendingLog' = <<>>
               /\ pendingDoc' = [k \in Keys |-> Untouched]
               /\ commitLog' = IF committed THEN commitLog \o log ELSE commitLog
               /\ committedDoc' = IF committed
                                     THEN [k \in Keys |-> IF docs[k] = Untouched
                                                            THEN committedDoc[k]
                                                            ELSE docs[k]]
                                     ELSE committedDoc
          ELSE /\ pendingLog' = log
               /\ pendingDoc' = docs
               /\ UNCHANGED <<commitLog, committedDoc>>

\* ------------------------------------------------------------------ C API
\* c4db_beginTransaction
c4db_beginTransaction(t, h) ==
    /\ ~crashed
    /\ pc[t] = Idle
    /\ beginTransaction(t, h)
    /\ IF txLevel[h] = 0
          THEN /\ pc' = [pc EXCEPT ![t] = "begin:new"]
               /\ pcH' = [pcH EXCEPT ![t] = h]
               /\ UNCHANGED ret
          ELSE /\ ret' = Ret("begin", TRUE, "none")
               /\ UNCHANGED <<pc, pcH>>
    /\ UNCHANGED <<ledgerVars, txnVars, queryVars, enumVars, lifeVars, tempVars, lazyVars>>

\* c4db_beginTransaction / c4raw_put resumed at `new Transaction(_db.get())`
NewTransaction(t, h) ==
    /\ ~crashed
    /\ pc[t] \in {"begin:new", "put:new"}
    /\ pcH[t] = h
    /\ newTransaction(t, h)
    /\ IF pc[t] = "begin:new"
          THEN /\ pc' = [pc EXCEPT ![t] = Idle]
               /\ pcH' = [pcH EXCEPT ![t] = NoHandle]
               /\ ret' = Ret("begin", TRUE, "none")
          ELSE /\ pc' = [pc EXCEPT ![t] = "put:body"]
               /\ UNCHANGED <<pcH, ret>>
    /\ UNCHANGED <<ledgerVars, txnVars, queryVars, enumVars, lifeVars, tempVars, lazyVars>>

\* ... where the constructor throws: catchError, return false
NewTransactionThrows(t, h) ==
    /\ ~crashed
    /\ pc[t] \in {"begin:new", "put:new"}
    /\ pcH[t] = h
    /\ newTransactionThrows(t, h)
    /\ pc' = [pc EXCEPT ![t] = Idle]
    /\ pcH' = [pcH EXCEPT ![t] = NoHandle]
    /\ ret' = Ret(IF pc[t] = "begin:new" THEN "begin" ELSE "put", FALSE, "NotWriteable")
    /\ UNCHANGED <<ledgerVars, txnVars, queryVars, enumVars, lifeVars, tempVars, lazyVars>>

\* c4db_endTransaction that does not record NotInTransaction when
\* endTransaction returns false
c4db_endTransactionNoError(t, h, commit) ==
    /\ ~crashed
    /\ pc[t] = Idle
    /\ \E res \in EndResults :
          /\ endTransaction(t, h, commit, store, lastSequence, res)
          /\ Ledger(h, commit, res, pendingLog, pendingDoc)
          /\ ret' = CASE res = "true"  -> Ret("end", TRUE, "none")
                      [] res = "false" -> Ret("end", FALSE, "none")
                      [] res = "throw" -> Ret("end", FALSE, "Storage")
                      [] OTHER         -> ret
    /\ UNCHANGED <<pc, pcH>>
    /\ UNCHANGED <<txnVars, queryVars, enumVars, lifeVars, tempVars, lazyVars>>

\* c4db_endTransaction
c4db_endTransaction(t, h, commit) ==
    /\ ~crashed
    /\ pc[t] = Idle
    /\ \E res \in EndResults :
          /\ endTransaction(t, h, commit, store, lastSequence, res)
          /\ Ledger(h, commit, res, pendingLog, pendingDoc)
          /\ ret' = CASE res = "true"  -> Ret("end", TRUE, "none")
                      [] res = "false" -> Ret("end", FALSE, "NotInTransaction")
                      [] res = "throw" -> Ret("end", FALSE, "Storage")
                      [] OTHER         -> ret
    /\ UNCHANGED <<pc, pcH>>
    /\ UNCHANGED <<txnVars, queryVars, enumVars, lifeVars, tempVars, lazyVars>>

\* c4raw_put, up to the return of its c4db_beginTransaction
c4raw_put(t, h) ==
    /\ ~crashed
    /\ pc[t] = Idle
    /\ beginTransaction(t, h)
    /\ pc' = [pc EXCEPT ![t] = IF txLevel[h] = 0 THEN "put:new" ELSE "put:body"]
    /\ pcH' = [pcH EXCEPT ![t] = h]
    /\ UNCHANGED ret
    /\ UNCHANGED <<ledgerVars, txnVars, queryVars, enumVars, lifeVars, tempVars, lazyVars>>

\* c4raw_put, the try block and the closing c4db_endTransaction.
\* out: "ok" (set/del returned), "throw" (the KeyStore threw: catchError,
\* commit stays false), "crash" (*database->transaction() was a null
\* reference; undefined behaviour, the other outcome modelled is a throw).
c4raw_put_body(t, h, key, meta, body, out) ==
    LET isSet == body # Null \/ meta # Null
        wr == IF isSet THEN KeyStoreSet(store, lastSequence, key, meta, body)
                       ELSE KeyStoreDel(store, lastSequence, key)
        commit == (out = "ok")
        log == IF wr.seq # lastSequence THEN Append(pendingLog, wr.seq) ELSE pendingLog
        docs == [pendingDoc EXCEPT ![key] = IF isSet THEN RawDoc(key, meta, body)
                                                     ELSE NotFound]
    IN
    /\ ~crashed
    /\ pc[t] = "put:body"
    /\ pcH[t] = h
    /\ out = "ok" => transaction[h] # NULL /\ wr.seq <= MaxSeq
    /\ out = "crash" => transaction[h] = NULL
    /\ IF out = "crash"
          THEN /\ crashed' = TRUE
               /\ UNCHANGED <<txLevel, txOwner, txCount, transaction, fileTxn, store,
                              lastSequence, saved, nestedAbort, undone, faults, ret,
                              ledgerVars>>
          ELSE \E res \in EndResults :
                 /\ IF commit THEN /\ endTransaction(t, h, TRUE, wr.store, wr.seq, res)
                                   /\ Ledger(h, TRUE, res, log, docs)
                              ELSE /\ endTransaction(t, h, FALSE, store, lastSequence, res)
                                   /\ Ledger(h, FALSE, res, pendingLog, pendingDoc)
                 /\ ret' = IF res = "crash" THEN ret
                           ELSE Ret("put", commit,
                                    IF commit /\ res = "true" THEN "none" ELSE "Storage")
    /\ pc' = [pc EXCEPT ![t] = Idle]
    /\ pcH' = [pcH EXCEPT ![t] = NoHandle]
    /\ UNCHANGED <<txnVars, queryVars, enumVars, lifeVars, tempVars, lazyVars>>

\* what a read through handle h sees: its own uncommitted writes, but of the
\* Transaction of another handle only what was there when it began
View(h) == IF fileTxn \in {NoHandle, h} THEN [store |-> store, seq |-> lastSequence]
                                        ELSE saved

\* C4RawDocument with the copies of meta and body stored in each other's place
C4RawDocumentSwapped(key, doc) == [key |-> key, meta |-> doc.body, body |-> doc.meta]

\* C4RawDocument made of a Document: copies of its key, meta and body
\* (the copy of a null slice is a null slice)
C4RawDocument(key, doc) == [key |-> key, meta |-> doc.meta, body |-> doc.body]

\* c4db_purgeDoc.  out: "ok" (del returned), "throw" (the KeyStore threw:
\* catchError), "crash" (*database->transaction() was a null reference;
\* undefined behaviour, the other outcome modelled is a throw).
c4db_purgeDoc(t, h, docID, out) ==
    LET wr == KeyStoreDel(store, lastSequence, docID)
        log == IF wr.seq # lastSequence THEN Append(pendingLog, wr.seq) ELSE pendingLog
    IN
    /\ ~crashed
    /\ pc[t] = Idle
    /\ CanLock(h, t)
    /\ IF ~inTransaction(h) THEN
            /\ out = "ok"
            /\ ret' = Ret("purge", FALSE, "NotInTransaction")
            /\ UNCHANGED <<store, lastSequence, pendingLog, pendingDoc, crashed>>
       ELSE IF out = "crash" THEN
            /\ transaction[h] = NULL
            /\ crashed' = TRUE
            /\ UNCHANGED <<store, lastSequence, pendingLog, pendingDoc, ret>>
       ELSE IF out = "throw" THEN
            /\ ret' = Ret("purge", FALSE, "Storage")
            /\ UNCHANGED <<store, lastSequence, pendingLog, pendingDoc, crashed>>
       ELSE
            /\ transaction[h] # NULL
            /\ wr.seq <= MaxSeq
            /\ store' = wr.store /\ lastSequence' = wr.seq
            /\ pendingLog' = log
            /\ pendingDoc' = [pendingDoc EXCEPT
                                 ![docID] = IF store[docID].exists THEN NotFound ELSE @]
            /\ ret' = IF store[docID].exists THEN Ret("purge", TRUE, "none")
                                             ELSE Ret("purge", FALSE, "NotFound")
            /\ UNCHANGED crashed
    /\ UNCHANGED <<txLevel, txOwner, txCount, transaction, fileTxn, saved, nestedAbort,
                   undone, pc, pcH, faults, commitLog, committedDoc>>
    /\ UNCHANGED <<txnVars, queryVars, enumVars, lifeVars, tempVars, lazyVars>>

\* c4raw_get without its test of doc.exists(): a missing record comes back
\* as a C4RawDocument with null meta and body
c4raw_getResultNoExistsTest(h, key) ==
    LET doc == View(h).store[key]
    IN [op |-> "get", h |-> h, key |-> key, ok |-> TRUE, err |-> "none",
        doc |-> IF doc.exists THEN C4RawDocument(key, doc)
                              ELSE [key |-> key, meta |-> Null, body |-> Null]]

\* what c4raw_get(key) returns on handle h when the KeyStore does not throw
c4raw_getResult(h, key) ==
    LET doc == View(h).store[key]
    IN IF ~doc.exists
          THEN [op |-> "get", h |-> h, key |-> key, ok |-> FALSE, err |-> "NotFound"]
          ELSE [op |-> "get", h |-> h, key |-> key, ok |-> TRUE, err |-> "none",
                doc |-> C4RawDocument(key, doc)]

\* c4raw_get.  out: "ok", or "throw" (the KeyStore threw: catchError)
c4raw_get(t, h, key, out) ==
    /\ ~crashed
    /\ pc[t] = Idle
    /\ ret' = IF out = "throw"
                 THEN [op |-> "get", h |-> h, key |-> key, ok |-> FALSE, err |-> "Storage"]
                 ELSE c4raw_getResult(h, key)
    /\ UNCHANGED <<txLevel, txOwner, txCount, transaction, fileTxn, store, lastSequence,
                   saved, nestedAbort, undone, pc, pcH, faults, crashed, ledgerVars>>
    /\ UNCHANGED <<txnVars, queryVars, enumVars, lifeVars, tempVars, lazyVars>>

\* c4db_getLastSequence
c4db_getLastSequence(t, h) ==
    /\ ~crashed
    /\ pc[t] = Idle
    /\ ret' = [op |-> "getLastSequence", ok |-> TRUE, err |-> "none",
               sequence |-> View(h).seq]
    /\ UNCHANGED <<txLevel, txOwner, txCount, transaction, fileTxn, store, lastSequence,
                   saved, nestedAbort, undone, pc, pcH, faults, crashed, ledgerVars>>
    /\ UNCHANGED <<txnVars, queryVars, enumVars, lifeVars, tempVars, lazyVars>>

\* c4db_isInTransaction: c4Database::inTransaction() under the lock_guard of
\* _transactionMutex, which waits while another thread owns the mutex
c4db_isInTransaction(t, h) ==
    /\ ~crashed
    /\ pc[t] = Idle
    /\ CanLock(h, t)
    /\ ret' = Ret("isInTransaction", inTransaction(h), "none")
    /\ UNCHANGED <<txLevel, txOwner, txCount, transaction, fileTxn, store, lastSequence,
                   saved, nestedAbort, undone, pc, pcH, faults, crashed, ledgerVars>>
    /\ UNCHANGED <<txnVars, queryVars, enumVars, lifeVars, tempVars, lazyVars>>

\* ------------------------------------------------- life cycle of a handle
NoKey == "nokey"                 \* newKey == NULL: kNoEncryption
EncryptionKeys == {NoKey, "key1"}
LifeOps == {"close", "free", "delete", "compact", "rekey"}

\* c4db_open: one reference, the Database open on the existing file
LifeInit ==
    /\ dbOpen = [h \in Handles |-> TRUE]
    /\ refCount = [h \in Handles |-> 1]
    /\ fileExists = TRUE
    /\ compacted = FALSE
    /\ encKey = NoKey

\* the handle may still be called: it was not closed, deleted or freed
Usable(h) == dbOpen[h] /\ refCount[h] > 0

\* mustNotBeInTransaction that lets every call through
mustNotBeInTransactionAlways(h) == TRUE

\* c4Database::mustNotBeInTransaction: false records TransactionNotClosed
mustNotBeInTransaction(h) == ~inTransaction(h)

\* the first half of c4db_close, c4db_free, c4db_delete, c4db_compact and
\* c4db_rekey: mustNotBeInTransaction under the lock_guard of inTransaction();
\* in a transaction the call returns false, else it goes on to WITH_LOCK.
\* (c4db_free passes no outError: the error recorded reaches no caller.)
IfNotInTransaction(t, h, op) ==
    /\ ~crashed
    /\ Usable(h)
    /\ pc[t] = Idle
    /\ CanLock(h, t)
    /\ IF mustNotBeInTransaction(h)
          THEN /\ pc' = [pc EXCEPT ![t] = op]
               /\ pcH' = [pcH EXCEPT ![t] = h]
               /\ UNCHANGED ret
          ELSE /\ ret' = Ret(op, FALSE, "TransactionNotClosed")
               /\ UNCHANGED <<pc, pcH>>
    /\ UNCHANGED <<txLevel, txOwner, txCount, transaction, fileTxn, store, lastSequence,
                   saved, nestedAbort, undone, faults, crashed, ledgerVars>>
    /\ UNCHANGED <<lifeVars, txnVars, queryVars, enumVars, tempVars, lazyVars>>

\* the second half, under WITH_LOCK(database): thread t returns from op
Returns(t, h, op, ok, err) ==
    /\ ~crashed
    /\ pc[t] = op /\ pcH[t] = h
    /\ pc' = [pc EXCEPT ![t] = Idle]
    /\ pcH' = [pcH EXCEPT ![t] = NoHandle]
    /\ ret' = Ret(op, ok, err)
    /\ UNCHANGED <<txLevel, txOwner, txCount, transaction, fileTxn, store, lastSequence,
                   saved, nestedAbort, undone, faults, ledgerVars>>
    /\ UNCHANGED <<txnVars, queryVars, enumVars, tempVars, lazyVars>>

\* c4base_retain on the handle
c4db_retain(t, h) ==
    /\ ~crashed
    /\ Usable(h)
    /\ pc[t] = Idle
    /\ refCount[h] < MaxRefs
    /\ refCount' = [refCount EXCEPT ![h] = @ + 1]
    /\ UNCHANGED <<dbOpen, fileExists, compacted, encKey>>
    /\ UNCHANGED <<dbVars, txnVars, queryVars, enumVars, tempVars, lazyVars>>

\* c4db_close
c4db_close(t, h) == IfNotInTransaction(t, h, "close")

\* ... database->db()->close()
c4db_close_locked(t, h) ==
    /\ Returns(t, h, "close", TRUE, "none")
    /\ dbOpen' = [dbOpen EXCEPT ![h] = FALSE]
    /\ UNCHANGED <<refCount, fileExists, compacted, encKey, crashed>>

\* c4db_free
c4db_free(t, h) == IfNotInTransaction(t, h, "free")

\* ... database->release(): the last release destroys the c4Database, and
\* with it the mutex the lock guard of WITH_LOCK still holds (undefined
\* behaviour: out is "ok" or "crash")
c4db_free_locked(t, h, out) ==
    /\ Returns(t, h, "free", TRUE, "none")
    /\ out = "crash" => refCount[h] = 1
    /\ refCount' = [refCount EXCEPT ![h] = @ - 1]
    /\ dbOpen' = [dbOpen EXCEPT ![h] = IF refCount[h] = 1 THEN FALSE ELSE @]
    /\ crashed' = (out = "crash")
    /\ UNCHANGED <<fileExists, compacted, encKey>>

\* c4db_delete
c4db_delete(t, h) == IfNotInTransaction(t, h, "delete")

\* ... refCount() > 1 records Busy, and the call goes on:
\* database->db()->deleteDatabase(); return true
c4db_delete_locked(t, h) ==
    /\ Returns(t, h, "delete", TRUE, IF refCount[h] > 1 THEN "Busy" ELSE "none")
    /\ dbOpen' = [dbOpen EXCEPT ![h] = FALSE]
    /\ fileExists' = FALSE
    /\ UNCHANGED <<refCount, compacted, encKey, crashed>>

\* c4db_compact
c4db_compact(t, h) == IfNotInTransaction(t, h, "compact")

\* ... database->db()->compact()
c4db_compact_locked(t, h) ==
    /\ Returns(t, h, "compact", TRUE, "none")
    /\ compacted' = TRUE
    /\ UNCHANGED <<dbOpen, refCount, fileExists, encKey, crashed>>

\* c4db_rekey
c4db_rekey(t, h) == IfNotInTransaction(t, h, "rekey")

\* ... c4Database::rekey(database->db(), newKey, outError)
c4db_rekey_locked(t, h, newKey) ==
    /\ Returns(t, h, "rekey", TRUE, "none")
    /\ encKey' = newKey
    /\ UNCHANGED <<dbOpen, refCount, fileExists, compacted, crashed>>

\* -------------------------------------------------------- c4_setTempDir
TempThreads == {"T1", "T2", "T3"}
TempPaths == {"/tmp/a", "/tmp/b"}
NoTempRet == [ok |-> TRUE, err |-> "nocall"]

TempInit ==
    /\ tempDir = nullptr
    /\ tpc = [t \in TempThreads |-> Idle]
    /\ tpath = [t \in TempThreads |-> nullptr]
    /\ tret = [t \in TempThreads |-> NoTempRet]
    /\ tsucceeded = 0

\* c4_setTempDir(path, err) up to its test of sqlite3_temp_directory
c4_setTempDir(t, path) ==
    /\ tpc[t] = Idle
    /\ IF tempDir # nullptr
          THEN /\ tret' = [tret EXCEPT ![t] = [ok |-> FALSE, err |-> "Unsupported"]]
               /\ UNCHANGED <<tpc, tpath>>
          ELSE /\ tpc' = [tpc EXCEPT ![t] = "store"]
               /\ tpath' = [tpath EXCEPT ![t] = [path |-> path]]
               /\ UNCHANGED tret
    /\ UNCHANGED <<tempDir, tsucceeded>>
    /\ UNCHANGED <<dbVars, txnVars, queryVars, enumVars, lifeVars, lazyVars>>

\* ... sqlite3_temp_directory = sqlite3_malloc; memcpy; return true. The
\* global is written and read again with no synchronisation: with another
\* call storing at the same time it ends up holding either path.
c4_setTempDir_store(t) ==
    /\ tpc[t] = "store"
    /\ \E w \in {u \in TempThreads : tpc[u] = "store"} : tempDir' = tpath[w]
    /\ tpc' = [tpc EXCEPT ![t] = Idle]
    /\ tpath' = [tpath EXCEPT ![t] = nullptr]
    /\ tret' = [tret EXCEPT ![t] = [ok |-> TRUE, err |-> "none"]]
    /\ tsucceeded' = tsucceeded + 1
    /\ UNCHANGED <<dbVars, txnVars, queryVars, enumVars, lifeVars, lazyVars>>

\* ------------------------------------------------- lazy vector index
\* The documents of the collection the lazy index is built on, in the order
\* the index takes them up
LazyDocs == <<"d1", "d2", "d3">>
LazyLimits == {1, 2, 3}
NoURet == [op |-> "none", ok |-> TRUE, err |-> "none"]

\* createVectorIndex(lazy = true): the index exists and holds no vector
LazyInit ==
    /\ indexed = {}
    /\ updater = nullptr
    /\ uret = NoURet

\* the documents still without a vector, in index order
PendingDocs == SelectSeq(LazyDocs, LAMBDA d : d \notin indexed)

\* the rows of the updater that were set or skipped
Recorded(u) == {i \in DOMAIN u.rows : u.marks[i] # "none"}

\* c4index_beginUpdate(index, limit, err): an updater over the first `limit`
\* documents that have no vector yet; null when there is none
c4index_beginUpdate(limit) ==
    /\ updater = nullptr
    /\ LET rows == SubSeq(PendingDocs, 1, IF Len(PendingDocs) < limit
                                             THEN Len(PendingDocs) ELSE limit)
       IN IF rows = <<>>
             THEN /\ uret' = [op |-> "beginUpdate", ok |-> TRUE, err |-> "none"]
                  /\ UNCHANGED updater
             ELSE /\ updater' = [rows |-> rows,
                                 marks |-> [i \in DOMAIN rows |-> "none"],
                                 finished |-> FALSE]
                  /\ uret' = [op |-> "beginUpdate", ok |-> TRUE, err |-> "none"]
    /\ UNCHANGED indexed
    /\ UNCHANGED <<dbVars, txnVars, queryVars, enumVars, lifeVars, tempVars>>

\* c4indexupdater_setVectorAt(updater, i, vector, dimension, err)
c4indexupdater_setVectorAt(i) ==
    /\ updater # nullptr
    /\ ~updater.finished
    /\ i \in DOMAIN updater.rows
    /\ updater' = [updater EXCEPT !.marks[i] = "set"]
    /\ uret' = [op |-> "setVectorAt", ok |-> TRUE, err |-> "none"]
    /\ UNCHANGED indexed
    /\ UNCHANGED <<dbVars, txnVars, queryVars, enumVars, lifeVars, tempVars>>

\* c4indexupdater_skipVectorAt(updater, i)
c4indexupdater_skipVectorAt(i) ==
    /\ updater # nullptr
    /\ ~updater.finished
    /\ i \in DOMAIN updater.rows
    /\ updater' = [updater EXCEPT !.marks[i] = "skip"]
    /\ uret' = [op |-> "skipVectorAt", ok |-> TRUE, err |-> "none"]
    /\ UNCHANGED indexed
    /\ UNCHANGED <<dbVars, txnVars, queryVars, enumVars, lifeVars, tempVars>>

\* the updater marked finished: the vectors that were set enter the index,
\* the skipped rows stay pending
MarkFinished ==
    /\ updater' = [updater EXCEPT !.finished = TRUE]
    /\ indexed' = indexed \cup {updater.rows[i] : i \in {j \in DOMAIN updater.rows :
                                                         updater.marks[j] = "set"}}
    /\ uret' = [op |-> "finish", ok |-> TRUE, err |-> "none"]

\* the update refused: Unsupported, nothing is marked
RefuseFinish ==
    /\ uret' = [op |-> "finish", ok |-> FALSE, err |-> "Unsupported"]
    /\ UNCHANGED <<updater, indexed>>

\* a finish that marks the update finished whatever was recorded
FinishUpdateAlways(complete) == MarkFinished

\* finish, for an updater with `complete` telling whether every row was set
\* or skipped.  With no row recorded the update is refused; with every row
\* recorded it is finished; in between the outcome is not laid down.
FinishUpdate(complete) ==
    IF Recorded(updater) = {}
       THEN RefuseFinish
       ELSE IF complete THEN MarkFinished ELSE (MarkFinished \/ RefuseFinish)

\* c4indexupdater_finish(updater, err)
c4indexupdater_finish ==
    /\ updater # nullptr
    /\ ~updater.finished
    /\ FinishUpdate(Recorded(updater) = DOMAIN updater.rows)
    /\ UNCHANGED <<dbVars, txnVars, queryVars, enumVars, lifeVars, tempVars>>

\* c4indexupdater_release(updater)
c4indexupdater_release ==
    /\ updater # nullptr
    /\ updater' = nullptr
    /\ uret' = [op |-> "release", ok |-> TRUE, err |-> "none"]
    /\ UNCHANGED indexed
    /\ UNCHANGED <<dbVars, txnVars, queryVars, enumVars, lifeVars, tempVars>>

\* ------------------------------------------- Transaction driven on its own
\* Transaction(Database*, bool begin): the public constructors pass begin =
\* true; Database itself passes false to hold the file without a transaction
TransactionCtor(begin) == IF begin THEN kCommit ELSE kNoOp

TxnInit ==
    \E begin \in BOOLEAN :
        /\ tstate = TransactionCtor(begin)
        /\ tcalls = <<IF begin THEN "Transaction(db)" ELSE "Transaction(db,false)">>

\* t.abort()
CallAbort ==
    /\ Len(tcalls) <= MaxCalls
    /\ tstate' = abort(tstate)
    /\ tcalls' = Append(tcalls, "abort")
    /\ UNCHANGED <<dbVars, queryVars, enumVars, lifeVars, tempVars, lazyVars>>

\* t.flushWAL()
CallFlushWAL ==
    /\ Len(tcalls) <= MaxCalls
    /\ tstate' = flushWAL(tstate)
    /\ tcalls' = Append(tcalls, "flushWAL")
    /\ UNCHANGED <<dbVars, queryVars, enumVars, lifeVars, tempVars, lazyVars>>

\* ---------------------------------------------------- Fleece values (AST)
\* A Value* is modelled as a record; VNull is the null pointer (item absent).
VNull == [type |-> "null"]
VJsonNull == [type |-> "jsonnull"]                \* the JSON value null (a Value of type kNull)
VInt(n) == [type |-> "int", i |-> n]
VFloat(n) == [type |-> "float", trunc |-> n]      \* non-integral number, truncating to n
VStr(str) == [type |-> "string", str |-> str]
VBool(b) == [type |-> "bool", b |-> b]
VArr(items) == [type |-> "array", a |-> items]

\* Value::asArray(): the array, or null if the value is something else
asArray(v) == IF v.type = "array" THEN v ELSE VNull

\* Array::get(i) / ArrayIterator::operator[](i), 0-based: null past the end
ArrayGet(arr, i) == IF i < Len(arr.a) THEN arr.a[i + 1] ELSE VNull

\* Value::asString(): the null slice if the value is no string
asString(v) == IF v.type = "string" THEN v.str ELSE Null

\* Value::asInt(): numbers truncate, booleans count 0/1, anything else is 0
asInt(v) == CASE v.type = "int" -> v.i
              [] v.type = "float" -> v.trunc
              [] v.type = "bool" -> IF v.b THEN 1 ELSE 0
              [] OTHER -> 0

\* Value::isInteger()
isInteger(v) == v.type = "int"

\* upper-casing of the operator names that occur in the queries explored
ToUpper(str) == CASE str = "approx_vector_distance()" -> "APPROX_VECTOR_DISTANCE()"
                  [] str = "or" -> "OR"
                  [] str = "and" -> "AND"
                  [] OTHER -> str

\* slice::caseEquivalent
caseEquivalent(a, b) == ToUpper(a) = ToUpper(b)

kVectorDistanceFnNameWithParens == "APPROX_VECTOR_DISTANCE()"
kMaxMaxResults == 10000

\* the error thrown by require(), requiredArray(), requiredString()
InvalidQuery == "InvalidQuery"

\* writeVectorMatchExpression(params, alias, tableName) for the call distExpr:
\* the predicates written, ANDed: the vector MATCH and, when the 4th argument
\* is there, vectorsearch_probes(vector, numProbes)
writeVectorMatchExpression(distExpr, alias) ==
    LET targetVectorParam == ArrayGet(distExpr, 2)
        numProbesVal == ArrayGet(distExpr, 4)
        numProbes == asInt(numProbesVal)
        match == [fn |-> "MATCH", alias |-> alias, target |-> targetVectorParam]
    IN
    IF numProbesVal = VNull THEN [err |-> "none", sql |-> <<match>>]
    ELSE IF ~(numProbes > 0) THEN [err |-> InvalidQuery, sql |-> <<>>]
    ELSE [err |-> "none",
          sql |-> <<match, [fn |-> "vectorsearch_probes", alias |-> alias,
                            n |-> numProbes]>>]

\* nonHybridWhereClause looking at the first operand whatever the operator
nonHybridWhereClauseFirstOperand(where) ==
    IF where = VNull THEN "true"
    ELSE IF where.type # "array" THEN "throw"
    ELSE IF Len(where.a) # 3 THEN "false"
    ELSE IF ArrayGet(where, 0).type # "string" THEN "throw"
    ELSE LET op == ArrayGet(where, 0).str
             expr == asArray(ArrayGet(where, 1))
         IN IF ~(op = "<" \/ op = "<=" \/ op = ">" \/ op = ">=") THEN "false"
            ELSE IF /\ expr # VNull
                    /\ ArrayGet(expr, 0) # VNull
                    /\ caseEquivalent(asString(ArrayGet(expr, 0)),
                                      "APPROX_VECTOR_DISTANCE()")
                 THEN "true" ELSE "false"

\* nonHybridWhereClause(where): "true", "false", or "throw" when
\* requiredArray / requiredString reject the clause
nonHybridWhereClause(where) ==
    IF where = VNull THEN "true"
    ELSE IF where.type # "array" THEN "throw"
    ELSE IF Len(where.a) # 3 THEN "false"
    ELSE IF ArrayGet(where, 0).type # "string" THEN "throw"
    ELSE LET op == ArrayGet(where, 0).str
             expr == IF op = "<" \/ op = "<=" THEN asArray(ArrayGet(where, 1))
                     ELSE asArray(ArrayGet(where, 2))
         IN IF ~(op = "<" \/ op = "<=" \/ op = ">" \/ op = ">=") THEN "false"
            ELSE IF /\ expr # VNull
                    /\ ArrayGet(expr, 0) # VNull
                    /\ caseEquivalent(asString(ArrayGet(expr, 0)),
                                      kVectorDistanceFnNameWithParens)
                 THEN "true" ELSE "false"

\* is v an APPROX_VECTOR_DISTANCE() call with at least one argument
IsDistanceCall(v) ==
    /\ v.type = "array"
    /\ Len(v.a) >= 2
    /\ caseEquivalent(asString(ArrayGet(v, 0)), kVectorDistanceFnNameWithParens)

\* findNodes(select, kVectorDistanceFnNameWithParens, 1, callback): the calls
\* found in a value, outermost first, left to right
RECURSIVE FindNodes(_)
RECURSIVE FindNodesIn(_)
FindNodesIn(items) ==
    IF items = <<>> THEN <<>>
    ELSE FindNodes(Head(items)) \o FindNodesIn(Tail(items))
FindNodes(v) ==
    IF v.type # "array" THEN <<>>
    ELSE (IF IsDistanceCall(v) THEN <<v>> ELSE <<>>) \o FindNodesIn(v.a)

\* the LIMIT check with `maxResults >= 0` for `maxResults > 0`
ValidLimitZeroAllowed(limitVal) ==
    /\ limitVal # VNull
    /\ isInteger(limitVal) /\ asInt(limitVal) >= 0
    /\ asInt(limitVal) <= 10000

\* the three require()s on the outer LIMIT of a non-hybrid query
ValidLimit(limitVal) ==
    /\ limitVal # VNull
    /\ isInteger(limitVal) /\ asInt(limitVal) > 0
    /\ asInt(limitVal) <= kMaxMaxResults

\* the join registered for the vector table: neither callback set yet
NoJoin == [writeTableSQL |-> VNull, writeExtraOnSQL |-> VNull]

\* the lambda registering the ON callback in the non-hybrid case as well
VectorSearchJoinBoth(select, distExpr, info) ==
    LET accurate == ArrayGet(distExpr, 5)
        metric == ArrayGet(distExpr, 3)
        expr == ArrayGet(distExpr, 1)
        limitVal == select.LIMIT
        maxResults == asInt(limitVal)
        nonHybrid == nonHybridWhereClause(select.WHERE)
        Fail == [err |-> InvalidQuery, info |-> NoJoin]
    IN
    IF accurate # VNull /\ accurate.type # "bool" THEN Fail
    ELSE IF accurate # VNull /\ accurate.b # FALSE THEN Fail
    ELSE IF metric # VNull /\ metric.type # "string" THEN Fail
    ELSE IF expr.type # "array" THEN Fail
    ELSE IF nonHybrid = "throw" THEN Fail
    ELSE IF nonHybrid = "true" THEN
        IF ~ValidLimit(limitVal) THEN Fail
        ELSE [err |-> "none",
              info |-> [writeTableSQL |-> [params |-> distExpr, limit |-> maxResults],
                        writeExtraOnSQL |-> [params |-> distExpr]]]
    ELSE [err |-> "none",
          info |-> [info EXCEPT !.writeExtraOnSQL = [params |-> distExpr]]]

\* the body of the lambda of addVectorSearchJoins for one call distExpr, given
\* the join info registered so far: [err, info]
VectorSearchJoin(select, distExpr, info) ==
    LET accurate == ArrayGet(distExpr, 5)
        metric == ArrayGet(distExpr, 3)
        expr == ArrayGet(distExpr, 1)
        limitVal == select.LIMIT
        maxResults == asInt(limitVal)
        nonHybrid == nonHybridWhereClause(select.WHERE)
        Fail == [err |-> InvalidQuery, info |-> NoJoin]
    IN
    IF accurate # VNull /\ accurate.type # "bool" THEN Fail
    ELSE IF accurate # VNull /\ accurate.b # FALSE THEN Fail
    ELSE IF metric # VNull /\ metric.type # "string" THEN Fail
    ELSE IF expr.type # "array" THEN Fail
    ELSE IF nonHybrid = "throw" THEN Fail
    ELSE IF nonHybrid = "true" THEN
        IF ~ValidLimit(limitVal) THEN Fail
        ELSE [err |-> "none",
              info |-> [info EXCEPT !.writeTableSQL =
                           [params |-> distExpr, limit |-> maxResults]]]
    ELSE [err |-> "none",
          info |-> [info EXCEPT !.writeExtraOnSQL = [params |-> distExpr]]]

\* the callback applied to the calls found, in order; the first throw ends it
RECURSIVE JoinsFor(_, _, _)
JoinsFor(select, nodes, info) ==
    IF nodes = <<>> THEN [err |-> "none", info |-> info]
    ELSE LET r == VectorSearchJoin(select, Head(nodes), info)
         IN IF r.err # "none" THEN r ELSE JoinsFor(select, Tail(nodes), r.info)

\* QueryParser::addVectorSearchJoins(select)
addVectorSearchJoins(select) ==
    JoinsFor(select, FindNodes(select.WHAT) \o FindNodes(select.WHERE), NoJoin)

\* the alias indexJoinTable gives the joined vector table
kVectorAlias == "vector1"

\* info->writeTableSQL(): the nested SELECT written in place of the table name
writeTableSQL(cb) ==
    LET m == writeVectorMatchExpression(cb.params, "") IN
    IF m.err # "none" THEN [err |-> m.err, table |-> VNull]
    ELSE [err |-> "none",
          table |-> [select |-> <<"rowid", "distance">>, where |-> m.sql,
                     limit |-> cb.limit]]

\* info->writeExtraOnSQL(): " AND " and the MATCH condition, added to the ON clause
writeExtraOnSQL(cb) ==
    LET m == writeVectorMatchExpression(cb.params, kVectorAlias) IN
    IF m.err # "none" THEN [err |-> m.err, on |-> <<>>] ELSE [err |-> "none", on |-> m.sql]

\* the JOIN on the vector table as written from the join info: the table (its
\* name, or what writeTableSQL wrote) and what was added to the ON clause
kPlainTable == [name |-> "vectorTable"]
WriteJoin(info) ==
    LET t == IF info.writeTableSQL = VNull THEN [err |-> "none", table |-> kPlainTable]
             ELSE writeTableSQL(info.writeTableSQL)
        o == IF info.writeExtraOnSQL = VNull THEN [err |-> "none", on |-> <<>>]
             ELSE writeExtraOnSQL(info.writeExtraOnSQL)
    IN IF t.err # "none" THEN [err |-> t.err, table |-> VNull, on |-> <<>>]
       ELSE IF o.err # "none" THEN [err |-> o.err, table |-> VNull, on |-> <<>>]
       ELSE [err |-> "none", table |-> t.table, on |-> o.on]

\* the context stack (_context), bottom first, as names of operations
kWhereOperation == "WHERE"
kResultListOperation == "RESULT"
kOuterOperation == "outer"

\* validate() rejecting an OR anywhere on the stack
validateAnyOr(context) ==
    \A i \in 1..(Len(context) - 1) : context[i] # "OR"

\* the loop of validate(), from entry i of the stack downwards
RECURSIVE validateFrom(_, _, _)
validateFrom(context, i, foundOR) ==
    IF i < 1 THEN TRUE
    ELSE IF context[i] = "OR" THEN validateFrom(context, i - 1, TRUE)
    ELSE IF context[i] = kWhereOperation THEN ~foundOR
    ELSE validateFrom(context, i - 1, foundOR)

\* the lambda validate() of writeVectorDistanceFn: the walk starts below the
\* top of the stack, which is the APPROX_VECTOR_DISTANCE operation itself
validate(context) == validateFrom(context, Len(context) - 1, FALSE)

\* what reading through the null `expr` of a call without arguments may do
NullExprOutcomes == {"crash", InvalidQuery}

\* tableFromVectorDistanceCall(params): "none" when it returns the table name,
\* else the error; ub is the outcome taken when params[0] is null
tableFromVectorDistanceCall(distExpr, ub) ==
    LET expr == ArrayGet(distExpr, 1)
        metricVal == ArrayGet(distExpr, 3)
    IN IF expr = VNull THEN ub
       ELSE IF metricVal # VNull /\ metricVal.type # "string" THEN InvalidQuery
       ELSE IF expr.type # "array" THEN InvalidQuery
       ELSE "none"

\* writeVectorDistanceFn(params) for the call distExpr under the context stack
writeVectorDistanceFn(context, distExpr, ub) ==
    IF ~validate(context) THEN [err |-> InvalidQuery, sql |-> <<>>]
    ELSE IF tableFromVectorDistanceCall(distExpr, ub) # "none"
         THEN [err |-> tableFromVectorDistanceCall(distExpr, ub), sql |-> <<>>]
    ELSE [err |-> "none", sql |-> <<[alias |-> kVectorAlias, column |-> "distance"]>>]

\* parseNode: the APPROX_VECTOR_DISTANCE operations of an expression with
\* the context stacks they are written under, left to right; every operation
\* entered is pushed under its canonical (upper-case) name
RECURSIVE ContextsOf(_, _)
RECURSIVE ContextsOfItems(_, _)
ContextsOfItems(items, context) ==
    IF items = <<>> THEN <<>>
    ELSE ContextsOf(Head(items), context) \o ContextsOfItems(Tail(items), context)
ContextsOf(v, context) ==
    IF v.type # "array" THEN <<>>
    ELSE IF Len(v.a) = 0 THEN <<>>
    ELSE IF v.a[1].type # "string" THEN <<>>
    ELSE LET c == Append(context, ToUpper(v.a[1].str)) IN
         IF c[Len(c)] = kVectorDistanceFnNameWithParens
            THEN <<[context |-> c, params |-> v]>>
         ELSE ContextsOfItems(Tail(v.a), c)

\* the calls of a SELECT with their stacks, in the order they are written: the
\* result columns, then the WHERE clause
ContextsOfSelect(select) ==
    ContextsOfItems(select.WHAT.a, <<kOuterOperation, "SELECT", kResultListOperation>>)
    \o ContextsOf(select.WHERE, <<kOuterOperation, "SELECT", kWhereOperation>>)

\* writeVectorDistanceFn for each stack in turn; the first throw ends the writing
RECURSIVE WriteDistanceFns(_, _, _)
WriteDistanceFns(contexts, sql, ub) ==
    IF contexts = <<>> THEN [err |-> "none", sql |-> sql]
    ELSE LET r == writeVectorDistanceFn(Head(contexts).context, Head(contexts).params, ub)
         IN IF r.err # "none" THEN r
            ELSE WriteDistanceFns(Tail(contexts), sql \o r.sql, ub)

\* ------------------------------------------------ the queries explored
Property(name) == VArr(<<VStr(name)>>)
DistanceCall(fn, extra) == VArr(<<VStr(fn), Property(".vector"), Property("$target")>> \o extra)
Dist == DistanceCall("APPROX_VECTOR_DISTANCE()", <<>>)
Euclidean == VStr("euclidean")
\* values tried as the 4th argument (numProbes)
NumProbesVals ==
    {VInt(3), VInt(1), VInt(0), VInt(-1), VFloat(2), VFloat(0), VStr("3"), VJsonNull,
     VBool(TRUE)}
\* values tried as the 5th argument (accurate)
AccurateVals == {VBool(FALSE), VBool(TRUE), VInt(0)}
\* the calls tried in WHERE clauses
WhereDistanceCalls ==
    { Dist,
      DistanceCall("approx_vector_distance()", <<>>),
      DistanceCall("APPROX_VECTOR_DISTANCE()", <<Euclidean, VInt(3), VBool(FALSE)>>),
      DistanceCall("APPROX_VECTOR_DISTANCE()", <<Euclidean, VInt(3), VBool(TRUE)>>),
      DistanceCall("APPROX_VECTOR_DISTANCE()", <<Euclidean, VFloat(2)>>),
      DistanceCall("APPROX_VECTOR_DISTANCE()", <<Euclidean, VInt(0)>>) }
\* the calls tried in result columns
DistanceCalls ==
    WhereDistanceCalls
    \cup {DistanceCall("APPROX_VECTOR_DISTANCE()", <<Euclidean>>),
          DistanceCall("APPROX_VECTOR_DISTANCE()", <<VJsonNull, VInt(3)>>)}
    \cup {DistanceCall("APPROX_VECTOR_DISTANCE()", <<Euclidean, n>>) : n \in NumProbesVals}
    \cup {DistanceCall("APPROX_VECTOR_DISTANCE()", <<Euclidean, VInt(3), acc>>) :
             acc \in AccurateVals}
    \cup {DistanceCall("APPROX_VECTOR_DISTANCE()", <<Euclidean, VJsonNull, VBool(b)>>) :
             b \in BOOLEAN}
Bound == VInt(5)
KindIsEven == VArr(<<VStr("="), Property(".kind"), VStr("even")>>)
CompareOps == {"<", "<=", ">", ">=", "=", "!="}
DistBelow == VArr(<<VStr("<"), Dist, Bound>>)

WhereClauses ==
    {VNull, VBool(TRUE), Dist, KindIsEven}
    \cup {VArr(<<VStr(op), d, Bound>>) : op \in CompareOps, d \in WhereDistanceCalls}
    \cup {VArr(<<VStr(op), Bound, d>>) : op \in CompareOps, d \in WhereDistanceCalls}
    \cup {VArr(<<VStr(op), Property(".n"), Bound>>) : op \in CompareOps}
    \cup {VArr(<<VStr(op), VArr(<<VStr("APPROX_VECTOR_DISTANCE()")>>), Bound>>) :
             op \in {"<", ">"}}
    \cup {VArr(<<VStr(op), KindIsEven, DistBelow>>) : op \in {"AND", "OR", "or"}}
    \cup {VArr(<<VStr(op1), KindIsEven, VArr(<<VStr(op2), KindIsEven, DistBelow>>)>>) :
             op1 \in {"AND", "OR"}, op2 \in {"AND", "OR"}}
    \cup {VArr(<<VStr("OR"), VArr(<<VStr("NOT"), DistBelow>>), KindIsEven>>),
          VArr(<<VStr("AND"), DistBelow, VArr(<<VStr("OR"), KindIsEven, KindIsEven>>)>>)}
    \cup {VArr(<<VStr("NOT"), DistBelow>>),
          VArr(<<VStr("<"), Dist>>),
          VArr(<<VStr("BETWEEN"), Dist, Bound, Bound>>),
          VArr(<<Dist, Dist, Bound>>),
          VArr(<<>>)}

WhatClauses ==
    {VArr(<<Property("._id")>>),
     VArr(<<Property("._id"), VArr(<<VStr("OR"), KindIsEven, DistBelow>>)>>)}
    \cup {VArr(<<Property("._id"), d>>) : d \in DistanceCalls}

Limits ==
    {VNull, VInt(-1), VInt(0), VInt(1), VInt(5), VInt(10000), VInt(10001),
     VFloat(2), VStr("5"), VBool(TRUE)}

Queries == [WHAT : WhatClauses, WHERE : WhereClauses, LIMIT : Limits]

NoQuery == [WHAT |-> VArr(<<>>), WHERE |-> VNull, LIMIT |-> VNull]
Pending == [err |-> "pending", info |-> NoJoin]
PendingSQL == [err |-> "pending"]

QueryIdle ==
    /\ qclass = "pending"
    /\ qres = Pending
    /\ qsql = PendingSQL
    /\ qdist = PendingSQL

QueryInit ==
    /\ query \in Queries
    /\ QueryIdle

\* the parser runs nonHybridWhereClause on the WHERE clause of the SELECT
ClassifyWhere ==
    /\ qclass = "pending"
    /\ qclass' = nonHybridWhereClause(query.WHERE)
    /\ UNCHANGED <<query, qres, qsql, qdist, dbVars, txnVars, enumVars, lifeVars, tempVars, lazyVars>>

\* the parser runs addVectorSearchJoins on the SELECT
AddVectorSearchJoins ==
    /\ qres = Pending
    /\ qres' = addVectorSearchJoins(query)
    /\ UNCHANGED <<query, qclass, qsql, qdist, dbVars, txnVars, enumVars, lifeVars, tempVars, lazyVars>>

\* the parser writes the JOIN on the vector table, calling the callbacks that
\* addVectorSearchJoins registered
WriteJoinSQL ==
    /\ qres # Pending /\ qres.err = "none"
    /\ qsql = PendingSQL
    /\ qsql' = WriteJoin(qres.info)
    /\ UNCHANGED <<query, qclass, qres, qdist, dbVars, txnVars, enumVars, lifeVars, tempVars, lazyVars>>

\* the parser writes the expressions of the SELECT; each APPROX_VECTOR_DISTANCE
\* operation goes through writeVectorDistanceFn
WriteVectorDistanceFns ==
    /\ qres # Pending /\ qres.err = "none"
    /\ qdist = PendingSQL
    /\ \E ub \in NullExprOutcomes :
          qdist' = WriteDistanceFns(ContextsOfSelect(query), <<>>, ub)
    /\ UNCHANGED <<query, qclass, qres, qsql, dbVars, txnVars, enumVars, lifeVars, tempVars, lazyVars>>

\* ------------------------------------------------------ document enumerator
\* C4EnumeratorFlags
kC4Descending == "kC4Descending"
kC4Unsorted == "kC4Unsorted"
kC4IncludeDeleted == "kC4IncludeDeleted"
kC4IncludeNonConflicted == "kC4IncludeNonConflicted"
kC4IncludeBodies == "kC4IncludeBodies"
kC4IncludeRevHistory == "kC4IncludeRevHistory"
C4EnumeratorFlags ==
    {kC4Descending, kC4Unsorted, kC4IncludeDeleted, kC4IncludeNonConflicted,
     kC4IncludeBodies, kC4IncludeRevHistory}

kC4DefaultEnumeratorOptions == {kC4IncludeNonConflicted, kC4IncludeBodies}

\* recordOptions with the test of kC4IncludeDeleted inverted
recordOptionsDeletedInverted(flags) ==
    [sortOption |-> IF kC4Descending \in flags THEN "kDescending"
                    ELSE IF kC4Unsorted \in flags THEN "kUnsorted"
                    ELSE "kAscending",
     includeDeleted |-> ~(kC4IncludeDeleted \in flags),
     onlyConflicts |-> ~(kC4IncludeNonConflicted \in flags),
     contentOption |-> IF ~(kC4IncludeBodies \in flags) THEN "kMetaOnly"
                       ELSE "kEntireBody"]

\* recordOptions with onlyConflicts set when kC4IncludeNonConflicted is set
recordOptionsConflictsInverted(flags) ==
    [sortOption |-> IF kC4Descending \in flags THEN "kDescending"
                    ELSE IF kC4Unsorted \in flags THEN "kUnsorted"
                    ELSE "kAscending",
     includeDeleted |-> kC4IncludeDeleted \in flags,
     onlyConflicts |-> kC4IncludeNonConflicted \in flags,
     contentOption |-> IF ~(kC4IncludeBodies \in flags) THEN "kMetaOnly"
                       ELSE "kEntireBody"]

\* C4DocEnumerator::Impl::recordOptions; RecordEnumerator::Options starts
\* with ascending order
recordOptions(flags) ==
    [sortOption |-> IF kC4Descending \in flags THEN "kDescending"
                    ELSE IF kC4Unsorted \in flags THEN "kUnsorted"
                    ELSE "kAscending",
     includeDeleted |-> kC4IncludeDeleted \in flags,
     onlyConflicts |-> ~(kC4IncludeNonConflicted \in flags),
     contentOption |-> IF ~(kC4IncludeBodies \in flags) THEN "kMetaOnly"
                       ELSE "kEntireBody"]

NoSince == -1       \* the enumerator was made by the constructor without `since`

RECURSIVE Reverse(_)
Reverse(seq) == IF seq = <<>> THEN <<>> ELSE Append(Reverse(Tail(seq)), Head(seq))

\* the record passes the filters of RecordEnumerator::Options
RecordPasses(rec, since, options) ==
    /\ options.includeDeleted \/ ~rec.deleted
    /\ ~options.onlyConflicts \/ rec.conflicted
    /\ since = NoSince \/ rec.sequence > since

\* RecordEnumerator(keyStore, [since,] options): the records it will stop on,
\* in its order
RecordEnumeratorRecords(recs, since, options) ==
    LET kept == SelectSeq(recs, LAMBDA rec : RecordPasses(rec, since, options))
    IN IF options.sortOption = "kDescending" THEN Reverse(kept) ELSE kept

\* the records the enumerator of this behaviour runs over
EnumRecords == RecordEnumeratorRecords(erecs, esince, recordOptions(eflags))

\* RecordEnumerator::hasRecord() / operator bool
hasRecord(impl, recs) == impl.pos >= 1 /\ impl.pos <= Len(recs)

\* RecordEnumerator::record()
record(impl, recs) == recs[impl.pos]

\* RecordEnumerator::next(): [impl, result]
RecordEnumeratorNext(impl, recs) ==
    IF impl.pos < Len(recs) THEN [impl |-> [pos |-> impl.pos + 1], result |-> TRUE]
    ELSE [impl |-> [pos |-> Len(recs) + 1], result |-> FALSE]

\* C4DocEnumerator::Impl::getDoc
getDoc(impl, recs, options) ==
    IF ~hasRecord(impl, recs) THEN nullptr
    ELSE [docID |-> record(impl, recs).key,
          body |-> options.contentOption = "kEntireBody"]

\* C4DocEnumerator::Impl::getDocInfo: [result, info]
getDocInfo(impl, recs, flags) ==
    IF ~hasRecord(impl, recs) THEN [result |-> FALSE, info |-> nullptr]
    ELSE LET rec == record(impl, recs) IN
         [result |-> TRUE,
          info |-> [docID |-> rec.key,
                    revID |-> IF kC4IncludeRevHistory \in flags /\ rec.isVersion
                              THEN "asASCII" ELSE "expanded",
                    flags |-> (IF rec.deleted THEN {"kDocDeleted"} ELSE {})
                              \cup (IF rec.conflicted THEN {"kDocConflicted"} ELSE {})
                              \cup {"kDocExists"},
                    sequence |-> rec.sequence]]

\* C4DocEnumerator::getDocumentInfo
getDocumentInfo(impl, recs, flags) ==
    IF impl = nullptr THEN [result |-> FALSE, info |-> nullptr]
    ELSE getDocInfo(impl, recs, flags)

\* C4DocEnumerator::getDocument
getDocument(impl, recs, options) ==
    IF impl = nullptr THEN nullptr ELSE getDoc(impl, recs, options)

\* C4DocEnumerator::next: [impl, result]
next(impl, recs) ==
    IF impl # nullptr /\ RecordEnumeratorNext(impl, recs).result
       THEN RecordEnumeratorNext(impl, recs)
       ELSE [impl |-> nullptr, result |-> FALSE]

\* close() that leaves _impl alone
closeKeepsImpl(impl) == impl

\* C4DocEnumerator::close
close(impl) == nullptr

\* the records of a KeyStore: record i has key i and sequence i
Record(i, d, c) ==
    [key |-> i, sequence |-> i, deleted |-> d, conflicted |-> c, isVersion |-> (i % 2 = 0)]
KeyStores ==
    UNION {{[i \in 1..n |-> Record(i, f[i][1], f[i][2])] :
               f \in [1..n -> BOOLEAN \X BOOLEAN]} : n \in 0..MaxRecords}
Sinces == {NoSince, 0, 1}

NoEnumRet == [op |-> "new"]

\* C4DocEnumerator(database, [since,] options)
EnumInit ==
    /\ erecs \in KeyStores
    /\ eflags \in SUBSET C4EnumeratorFlags
    /\ esince \in Sinces
    /\ eimpl = [pos |-> 0]
    /\ eret = NoEnumRet
    /\ eended = "no"
    /\ eyielded = <<>>

\* no enumerator: the state of the enumerator in the other specifications
EnumIdle ==
    /\ erecs = <<>>
    /\ eflags = kC4DefaultEnumeratorOptions
    /\ esince = NoSince
    /\ eimpl = nullptr
    /\ eret = NoEnumRet
    /\ eended = "no"
    /\ eyielded = <<>>

\* e->next()
EnumNext ==
    LET r == next(eimpl, EnumRecords) IN
    /\ eimpl' = r.impl
    /\ eret' = [op |-> "next", result |-> r.result]
    /\ eended' = IF eended = "no" /\ ~r.result THEN "exhausted" ELSE eended
    /\ eyielded' = IF r.result THEN Append(eyielded, record(r.impl, EnumRecords).key)
                    ELSE eyielded
    /\ UNCHANGED <<erecs, eflags, esince, dbVars, txnVars, queryVars, lifeVars, tempVars, lazyVars>>

\* e->getDocumentInfo(info)
EnumGetDocumentInfo ==
    LET r == getDocumentInfo(eimpl, EnumRecords, eflags) IN
    /\ eret' = [op |-> "getDocumentInfo", result |-> r.result, info |-> r.info]
    /\ UNCHANGED <<erecs, eflags, esince, eimpl, eended, eyielded, dbVars, txnVars,
                   queryVars, lifeVars, tempVars, lazyVars>>

\* e->documentInfo(): throws NotFound where getDocumentInfo returns false
EnumDocumentInfo ==
    LET r == getDocumentInfo(eimpl, EnumRecords, eflags) IN
    /\ eret' = IF r.result THEN [op |-> "documentInfo", info |-> r.info]
                ELSE [op |-> "documentInfo", err |-> "NotFound"]
    /\ UNCHANGED <<erecs, eflags, esince, eimpl, eended, eyielded, dbVars, txnVars,
                   queryVars, lifeVars, tempVars, lazyVars>>

\* e->getDocument()
EnumGetDocument ==
    /\ eret' = [op |-> "getDocument",
                doc |-> getDocument(eimpl, EnumRecords, recordOptions(eflags))]
    /\ UNCHANGED <<erecs, eflags, esince, eimpl, eended, eyielded, dbVars, txnVars,
                   queryVars, lifeVars, tempVars, lazyVars>>

\* e->close()
EnumClose ==
    /\ eimpl' = close(eimpl)
    /\ eret' = [op |-> "close"]
    /\ eended' = IF eended = "no" THEN "closed" ELSE eended
    /\ UNCHANGED <<erecs, eflags, esince, eyielded, dbVars, txnVars, queryVars, lifeVars,
                   tempVars, lazyVars>>

\* ------------------------------------------------------ specifications
Init ==
    /\ DbInit
    /\ LifeInit
    /\ TempInit
    /\ LazyInit
    /\ tstate = kNoOp /\ tcalls = <<>>
    /\ query = NoQuery /\ QueryIdle
    /\ EnumIdle

Next ==
    \/ \E t \in Threads : \E h \in HandlesOf(t) : c4db_beginTransaction(t, h)
    \/ \E t \in Threads, h \in Handles : NewTransaction(t, h)
    \/ \E t \in Threads, h \in Handles : NewTransactionThrows(t, h)
    \/ \E t \in Threads : \E h \in HandlesOf(t), commit \in BOOLEAN :
          c4db_endTransaction(t, h, commit)
    \/ \E t \in Threads : \E h \in HandlesOf(t) : c4raw_put(t, h)
    \/ \E t \in Threads, h \in Handles, key \in Keys, meta \in Metas,
          body \in Bodies, out \in {"ok", "throw", "crash"} :
          c4raw_put_body(t, h, key, meta, body, out)

Spec == Init /\ [][Next]_vars

TxnSpecInit ==
    /\ DbInit
    /\ LifeInit
    /\ TempInit
    /\ LazyInit
    /\ TxnInit
    /\ query = NoQuery /\ QueryIdle
    /\ EnumIdle

TxnNext ==
    \/ CallAbort
    \/ CallFlushWAL

TxnSpec == TxnSpecInit /\ [][TxnNext]_vars

QuerySpecInit ==
    /\ DbInit
    /\ LifeInit
    /\ TempInit
    /\ LazyInit
    /\ tstate = kNoOp /\ tcalls = <<>>
    /\ QueryInit
    /\ EnumIdle

QueryNext ==
    \/ ClassifyWhere
    \/ AddVectorSearchJoins
    \/ WriteJoinSQL
    \/ WriteVectorDistanceFns

QuerySpec == QuerySpecInit /\ [][QueryNext]_vars

EnumSpecInit ==
    /\ DbInit
    /\ LifeInit
    /\ TempInit
    /\ LazyInit
    /\ tstate = kNoOp /\ tcalls = <<>>
    /\ query = NoQuery /\ QueryIdle
    /\ EnumInit

EnumSpecNext ==
    \/ EnumNext
    \/ EnumGetDocumentInfo
    \/ EnumDocumentInfo
    \/ EnumGetDocument
    \/ EnumClose

EnumSpec == EnumSpecInit /\ [][EnumSpecNext]_vars

LifeThreads == {"T1", "T2"}
LifeHandles == {"h1"}

LifeSpecInit ==
    /\ DbInit
    /\ LifeInit
    /\ TempInit
    /\ LazyInit
    /\ tstate = kNoOp /\ tcalls = <<>>
    /\ query = NoQuery /\ QueryIdle
    /\ EnumIdle

LifeSpecNext ==
    \/ \E t \in LifeThreads, h \in LifeHandles :
          Usable(h) /\ c4db_beginTransaction(t, h)
    \/ \E t \in LifeThreads, h \in LifeHandles, commit \in BOOLEAN :
          Usable(h) /\ c4db_endTransaction(t, h, commit)
    \/ \E t \in LifeThreads, h \in LifeHandles : c4db_retain(t, h)
    \/ \E t \in LifeThreads, h \in LifeHandles : c4db_close(t, h)
    \/ \E t \in LifeThreads, h \in LifeHandles : c4db_free(t, h)
    \/ \E t \in LifeThreads, h \in LifeHandles : c4db_delete(t, h)
    \/ \E t \in LifeThreads, h \in LifeHandles : c4db_compact(t, h)
    \/ \E t \in LifeThreads, h \in LifeHandles : c4db_rekey(t, h)
    \/ \E t \in LifeThreads, h \in LifeHandles : NewTransaction(t, h)
    \/ \E t \in LifeThreads, h \in LifeHandles : NewTransactionThrows(t, h)
    \/ \E t \in LifeThreads, h \in LifeHandles : c4db_close_locked(t, h)
    \/ \E t \in LifeThreads, h \in LifeHandles, out \in {"ok", "crash"} :
          c4db_free_locked(t, h, out)
    \/ \E t \in LifeThreads, h \in LifeHandles : c4db_delete_locked(t, h)
    \/ \E t \in LifeThreads, h \in LifeHandles : c4db_compact_locked(t, h)
    \/ \E t \in LifeThreads, h \in LifeHandles, newKey \in EncryptionKeys :
          c4db_rekey_locked(t, h, newKey)

LifeSpec == LifeSpecInit /\ [][LifeSpecNext]_vars

TempSpecNext ==
    \/ \E t \in TempThreads, path \in TempPaths : c4_setTempDir(t, path)
    \/ \E t \in TempThreads : c4_setTempDir_store(t)

TempSpec == LifeSpecInit /\ [][TempSpecNext]_vars

\* one writer on handle h1, and a reader of the same file through handle h2
Writer == "T1"
Reader == "T2"

KvSpecNext ==
    \/ c4db_beginTransaction(Writer, "h1")
    \/ NewTransaction(Writer, "h1")
    \/ NewTransactionThrows(Writer, "h1")
    \/ \E commit \in BOOLEAN : c4db_endTransaction(Writer, "h1", commit)
    \/ c4raw_put(Writer, "h1")
    \/ \E key \in Keys, meta \in Metas, body \in Bodies, out \in {"ok", "throw", "crash"} :
          c4raw_put_body(Writer, "h1", key, meta, body, out)
    \/ \E docID \in Keys, out \in {"ok", "throw", "crash"} :
          c4db_purgeDoc(Writer, "h1", docID, out)
    \/ \E t \in {Writer, Reader}, key \in Keys, out \in {"ok", "throw"} :
          c4raw_get(t, IF t = Writer THEN "h1" ELSE "h2", key, out)
    \/ \E t \in {Writer, Reader} :
          c4db_getLastSequence(t, IF t = Writer THEN "h1" ELSE "h2")

KvSpec == LifeSpecInit /\ [][KvSpecNext]_vars

\* two threads that begin, end and ask about transactions on one handle
LockSpecNext ==
    \/ \E t \in LifeThreads, h \in LifeHandles : c4db_beginTransaction(t, h)
    \/ \E t \in LifeThreads, h \in LifeHandles : NewTransaction(t, h)
    \/ \E t \in LifeThreads, h \in LifeHandles : NewTransactionThrows(t, h)
    \/ \E t \in LifeThreads, h \in LifeHandles, commit \in BOOLEAN :
          c4db_endTransaction(t, h, commit)
    \/ \E t \in LifeThreads, h \in LifeHandles : c4db_isInTransaction(t, h)

LockSpec == LifeSpecInit /\ [][LockSpecNext]_vars

LazySpecNext ==
    \/ \E limit \in LazyLimits : c4index_beginUpdate(limit)
    \/ \E i \in 1..Len(LazyDocs) : c4indexupdater_setVectorAt(i)
    \/ \E i \in 1..Len(LazyDocs) : c4indexupdater_skipVectorAt(i)
    \/ c4indexupdater_finish
    \/ c4indexupdater_release

LazySpec == LifeSpecInit /\ [][LazySpecNext]_vars

\* ===================================================================
\* Properties of the transaction coordinator (specification Spec)
\* ===================================================================

\* the step is the outermost endTransaction of a handle that owns a Transaction
OutermostEnd(h) ==
    txLevel[h] = 1 /\ txLevel'[h] = 0 /\ transaction[h] # NULL

\* no C call is in progress on handle h
Quiet(h) == \A t \in Threads : pc[t] = Idle \/ pcH[t] # h

\* C1: at every instant at most one Transaction object exists on the file,
\* counted over all handles and threads, and a Transaction is created only
\* while no other one is alive.
C1_OneTransactionPerFile ==
    /\ Cardinality({h \in Handles : transaction[h] # NULL}) <= 1
    /\ \A h \in Handles : transaction[h] # NULL => fileTxn = h

\* a second handle is inside beginTransaction while the first owns the Transaction
C1_Witness ==
    \E h \in Handles, t \in Threads :
        /\ transaction[h] # NULL
        /\ pc[t] = "begin:new" /\ pcH[t] # h

\* C2: if any nesting level ended with commit = false, the outermost
\* endTransaction rolls the physical transaction back, whatever its own flag.
C2_NestedAbortPoisons ==
    [][\A h \in Handles :
          OutermostEnd(h) /\ nestedAbort[h]
              => store' = saved.store /\ lastSequence' = saved.seq]_vars

\* C3: a physical Transaction exists on a handle exactly between the call
\* that takes the level from 0 to 1 and the call that takes it back to 0;
\* calls at deeper levels neither create nor end one, and the file lock is
\* taken once, by the outermost begin.
C3_Coalesced ==
    /\ [](\A h \in Handles :
             Quiet(h) => ((transaction[h] # NULL) <=> (txLevel[h] >= 1)))
    /\ [][\A h \in Handles :
             (txLevel[h] >= 1 /\ txLevel'[h] >= 1 /\ txLevel'[h] # txLevel[h])
                 => /\ transaction'[h] = transaction[h]
                    /\ fileTxn' = fileTxn
                    /\ saved' = saved]_vars

\* the step ends a handle's transaction at the outermost level with
\* commit = false (c4db_endTransaction, or c4raw_put whose write threw)
EndsAborted(h) ==
    /\ OutermostEnd(h)
    /\ \/ \E t \in Threads : c4db_endTransaction(t, h, FALSE)
       \/ \E t \in Threads, key \in Keys, meta \in Metas, body \in Bodies :
              c4raw_put_body(t, h, key, meta, body, "throw")

\* C4: after the outermost endTransaction of an aborted transaction the
\* KeyStore contents and lastSequence are those of the moment the physical
\* transaction began, whatever was written inside.
C4_AbortRestores ==
    [][\A h \in Handles :
          EndsAborted(h) => store' = saved.store /\ lastSequence' = saved.seq]_vars

\* endTransaction(false) has just ended a transaction and discarded its writes
C4_Witness ==
    /\ ret = Ret("end", TRUE, "none")
    /\ fileTxn = NoHandle
    /\ undone > 0
    /\ faults = 0

\* C5: the file lock is held from the outermost beginTransaction to the
\* outermost endTransaction; no other begin completes in between; that
\* endTransaction releases the locks, so that a waiting begin can proceed.
C5_LockHeldUntilEnd ==
    /\ [](\A h \in Handles :
             transaction[h] # NULL => fileTxn = h /\ txOwner[h] # NoThread)
    /\ [][\A h \in Handles :
             transaction[h] = NULL /\ transaction'[h] # NULL => fileTxn = NoHandle]_vars
    /\ [][\A h \in Handles :
             OutermostEnd(h) => fileTxn' = NoHandle /\ txOwner'[h] = NoThread]_vars

\* C6: a storage fault during the commit of the outermost endTransaction is
\* reported, leaves the KeyStore as before the transaction, the handle out of
\* any transaction and every lock taken by beginTransaction released.
C6_CommitFaultRestores ==
    [][\A h \in Handles :
          (OutermostEnd(h) /\ faults' = faults + 1)
              => /\ store' = saved.store /\ lastSequence' = saved.seq
                 /\ txLevel'[h] = 0 /\ transaction'[h] = NULL
                 /\ fileTxn' = NoHandle
                 /\ txOwner'[h] = NoThread]_vars

\* ===================================================================
\* Properties of the Transaction state machine (specification TxnSpec)
\* ===================================================================
LastCall == tcalls[Len(tcalls)]

\* C7: a Transaction made by a public constructor starts in kCommit; abort()
\* takes every state but kNoOp to kAbort and leaves kNoOp alone; once the
\* state is kAbort no abort() or flushWAL() changes it.
C7_AbortAbsorbing ==
    /\ [](tcalls = <<"Transaction(db)">> => tstate = kCommit)
    /\ [][tcalls' # tcalls /\ LastCall' = "abort"
             => tstate' = IF tstate = kNoOp THEN kNoOp ELSE kAbort]_vars
    /\ [][tstate = kAbort => tstate' = kAbort]_vars

\* abort(), then flushWAL(), then abort() again: still kAbort
C7_Witness ==
    /\ tstate = kAbort
    /\ Len(tcalls) >= 4
    /\ tcalls[2] = "abort" /\ tcalls[3] = "flushWAL" /\ tcalls[4] = "abort"

\* C8: flushWAL() takes kCommit to kCommitManualWALFlush and changes no
\* other state.
C8_FlushWALFrame ==
    [][tcalls' # tcalls /\ LastCall' = "flushWAL"
          => tstate' = IF tstate = kCommit THEN kCommitManualWALFlush ELSE tstate]_vars

\* flushWAL() was called in kCommit and again in kCommitManualWALFlush
C8_Witness ==
    /\ tstate = kCommitManualWALFlush
    /\ Len(tcalls) >= 3
    /\ tcalls[2] = "flushWAL" /\ tcalls[3] = "flushWAL"

\* ===================================================================
\* Properties of the vector-search planner (specification QuerySpec)
\* ===================================================================

\* v is a call expression headed by APPROX_VECTOR_DISTANCE(), in any case
IsDistanceExpr(v) ==
    /\ v.type = "array"
    /\ Len(v.a) >= 1
    /\ v.a[1].type = "string"
    /\ ToUpper(v.a[1].str) = "APPROX_VECTOR_DISTANCE()"

\* w is a three-element expression [op, a, b] with a string op
IsBinaryExpr(w) == w.type = "array" /\ Len(w.a) = 3 /\ w.a[1].type = "string"

\* w reads APPROX_VECTOR_DISTANCE(...) op K with op one of < <= > >=
DistanceOpBound(w) ==
    /\ IsBinaryExpr(w)
    /\ w.a[1].str \in {"<", "<=", ">", ">="}
    /\ IsDistanceExpr(w.a[2])

\* w tests that the distance is below something: dist < K, dist <= K,
\* K > dist or K >= dist
DistanceBelowBound(w) ==
    /\ IsBinaryExpr(w)
    /\ \/ w.a[1].str \in {"<", "<="} /\ IsDistanceExpr(w.a[2])
       \/ w.a[1].str \in {">", ">="} /\ IsDistanceExpr(w.a[3])

\* C9 as stated: a WHERE clause is non-hybrid iff it is absent or reads
\* APPROX_VECTOR_DISTANCE(...) op K for one of the four operators; every
\* other clause the planner classifies is hybrid.
C9_NonHybridIffDistanceOpBound ==
    qclass \in {"true", "false"}
        => (qclass = "true" <=> (query.WHERE = VNull \/ DistanceOpBound(query.WHERE)))

\* C9 amended: a WHERE clause is non-hybrid iff it is absent or is a
\* three-element comparison with the distance call on the smaller side
\* ([< or <=, dist, K] or [> or >=, K, dist]); every other array headed by a
\* string is hybrid; a clause that is no array, or a three-element array whose
\* first item is no string, is rejected.
C9_NonHybridIffDistanceBelowBound ==
    LET w == query.WHERE IN
    qclass # "pending"
        => qclass = (IF w = VNull THEN "true"
                     ELSE IF w.type # "array" THEN "throw"
                     ELSE IF Len(w.a) = 3 /\ w.a[1].type # "string" THEN "throw"
                     ELSE IF DistanceBelowBound(w) THEN "true"
                     ELSE "false")

\* APPROX_VECTOR_DISTANCE(...) > K has been classified, as hybrid
C9_Witness ==
    /\ query.WHERE = VArr(<<VStr(">"), Dist, Bound>>)
    /\ qclass = "false"

\* LIMIT is an integer between 1 and 10000
LimitInRange(l) == l.type = "int" /\ 1 <= l.i /\ l.i <= 10000

\* the query holds an APPROX_VECTOR_DISTANCE call (with its vector argument)
ContainsDistanceCall(q) == FindNodes(q.WHAT) \o FindNodes(q.WHERE) # <<>>

\* C10: a non-hybrid query that contains APPROX_VECTOR_DISTANCE compiles only
\* if its LIMIT is an integer in 1..10000; with a missing, non-integer,
\* non-positive or too large LIMIT it fails with InvalidQuery and no join is
\* registered.
C10_LimitRequired ==
    (qclass = "true" /\ qres # Pending /\ ContainsDistanceCall(query))
        => /\ qres.err = "none" => LimitInRange(query.LIMIT)
           /\ ~LimitInRange(query.LIMIT)
                 => qres.err = "InvalidQuery" /\ qres.info = NoJoin

\* a simple query with LIMIT 0 was parsed and rejected
C10_Witness ==
    /\ query.WHERE = VNull /\ query.LIMIT = VInt(0)
    /\ query.WHAT = VArr(<<Property("._id"), Dist>>)
    /\ qclass = "true"
    /\ qres.err = "InvalidQuery"

\* the calls of the query that addVectorSearchJoins visits
CallsOf(q) == FindNodes(q.WHAT) \o FindNodes(q.WHERE)

\* the WHERE clause is one the planner classifies as non-hybrid (simple)
SimpleWhere(q) == q.WHERE = VNull \/ DistanceBelowBound(q.WHERE)

\* the WHERE clause is one the planner classifies as hybrid
HybridWhere(q) ==
    /\ q.WHERE.type = "array"
    /\ ~(Len(q.WHERE.a) = 3 /\ q.WHERE.a[1].type # "string")
    /\ ~DistanceBelowBound(q.WHERE)

\* the call has a metric that is a string or none, and accurate false or none
GoodArgs(d) ==
    /\ Len(d.a) >= 4 => d.a[4].type = "string"
    /\ Len(d.a) >= 6 => d.a[6] = VBool(FALSE)

\* the predicates hold exactly one vector MATCH
HasMatch(preds) == Cardinality({i \in DOMAIN preds : preds[i].fn = "MATCH"}) = 1

\* what was written for the table is a nested SELECT
IsNestedSelect(t) == "select" \in DOMAIN t

\* C11: the rewrite follows the classification of the WHERE clause.  Simple:
\* the table is replaced by a nested SELECT of rowid and distance that holds
\* the MATCH and a LIMIT equal to the outer LIMIT, and nothing is added to the
\* ON clause.  Hybrid: the table is joined as it is, the ON clause gets the
\* MATCH, no LIMIT is injected and the outer LIMIT is not looked at.  Never
\* both rewrites, never none.
C11_RewriteFollowsClassification ==
    LET info == qres.info IN
    /\ (qres # Pending /\ qres.err = "none" /\ CallsOf(query) # <<>>)
          => /\ (info.writeTableSQL = VNull) # (info.writeExtraOnSQL = VNull)
             /\ SimpleWhere(query) <=> info.writeTableSQL # VNull
             /\ HybridWhere(query) <=> info.writeExtraOnSQL # VNull
             /\ info.writeTableSQL # VNull
                   => info.writeTableSQL.limit = query.LIMIT.i
    /\ (qsql # PendingSQL /\ qsql.err = "none" /\ CallsOf(query) # <<>>)
          => IF SimpleWhere(query)
                THEN /\ IsNestedSelect(qsql.table)
                     /\ qsql.table.select = <<"rowid", "distance">>
                     /\ HasMatch(qsql.table.where)
                     /\ qsql.table.limit = query.LIMIT.i
                     /\ qsql.on = <<>>
                ELSE /\ qsql.table = kPlainTable
                     /\ HasMatch(qsql.on)
    /\ (qres # Pending /\ HybridWhere(query)
           /\ \A i \in DOMAIN CallsOf(query) : GoodArgs(CallsOf(query)[i]))
          => qres.err = "none"

\* a hybrid query without LIMIT was written as a JOIN with the MATCH in its ON
C11_Witness ==
    /\ query.WHERE = VArr(<<VStr("AND"), KindIsEven, DistBelow>>)
    /\ query.LIMIT = VNull
    /\ qsql # PendingSQL /\ qsql.err = "none"
    /\ qsql.table = kPlainTable /\ HasMatch(qsql.on)

\* v holds an APPROX_VECTOR_DISTANCE expression below an OR (underOr: an OR
\* was already passed on the way to v)
RECURSIVE CallUnderOr(_, _)
CallUnderOr(v, underOr) ==
    IF v.type # "array" THEN FALSE
    ELSE IF Len(v.a) = 0 THEN FALSE
    ELSE IF v.a[1].type # "string" THEN FALSE
    ELSE IF IsDistanceExpr(v) THEN underOr
    ELSE \E i \in 2..Len(v.a) :
            CallUnderOr(v.a[i], underOr \/ ToUpper(v.a[1].str) = "OR")

\* the number of APPROX_VECTOR_DISTANCE expressions in v
RECURSIVE CountCalls(_)
RECURSIVE CountCallsIn(_)
CountCallsIn(items) ==
    IF items = <<>> THEN 0 ELSE CountCalls(Head(items)) + CountCallsIn(Tail(items))
CountCalls(v) ==
    IF v.type # "array" THEN 0
    ELSE IF Len(v.a) = 0 THEN 0
    ELSE IF v.a[1].type # "string" THEN 0
    ELSE IF IsDistanceExpr(v) THEN 1
    ELSE CountCallsIn(Tail(v.a))

\* every APPROX_VECTOR_DISTANCE expression of the query has its vector argument
CallsHaveVector(q) ==
    CountCallsIn(q.WHAT.a) + CountCalls(q.WHERE) = Len(CallsOf(q))

\* C12: a query whose WHERE clause holds APPROX_VECTOR_DISTANCE below an OR,
\* at any depth, is rejected when its expressions are written; a query whose
\* calls are outside the WHERE clause, or in it but below no OR, has every
\* call written as the distance column, also the calls below an OR of a
\* result column.
C12_OrInWhereRejected ==
    qdist # PendingSQL
        => /\ CallUnderOr(query.WHERE, FALSE) => qdist.err = InvalidQuery
           /\ (~CallUnderOr(query.WHERE, FALSE) /\ CallsHaveVector(query))
                 => /\ qdist.err = "none"
                    /\ Len(qdist.sql) = CountCallsIn(query.WHAT.a) + CountCalls(query.WHERE)

\* a query with OR(..., distance < K) as a result column and a hybrid WHERE
\* without OR has had its two calls written
C12_Witness ==
    /\ query.WHAT = VArr(<<Property("._id"), VArr(<<VStr("OR"), KindIsEven, DistBelow>>)>>)
    /\ query.WHERE = VArr(<<VStr("AND"), KindIsEven, DistBelow>>)
    /\ qdist # PendingSQL /\ qdist.err = "none" /\ Len(qdist.sql) = 2

\* the query holds a call whose 5th argument is the boolean true
HasAccurateTrue(q) ==
    \E i \in DOMAIN CallsOf(q) : Len(CallsOf(q)[i].a) >= 6 /\ CallsOf(q)[i].a[6] = VBool(TRUE)

\* C13: a query that holds an APPROX_VECTOR_DISTANCE call with accurate = true
\* fails with Unsupported, wherever the call is.
C13_AccurateTrueUnsupported ==
    (qres # Pending /\ HasAccurateTrue(query)) => qres.err = "Unsupported"

\* the call whose match predicate the join callbacks write
JoinedCall ==
    IF qres.info.writeTableSQL # VNull THEN qres.info.writeTableSQL.params
    ELSE qres.info.writeExtraOnSQL.params

\* the predicates written for the join
JoinPredicates == IF IsNestedSelect(qsql.table) THEN qsql.table.where ELSE qsql.on

\* C14: numProbes, when present, must be a positive integer: any other value
\* is rejected; a valid N gives the MATCH and vectorsearch_probes(vector, N);
\* without numProbes only the MATCH is written.
C14_NumProbesPositiveInteger ==
    (qsql # PendingSQL /\ qres.info # NoJoin)
        => LET d == JoinedCall IN
           IF Len(d.a) < 5 THEN
                /\ qsql.err = "none"
                /\ Len(JoinPredicates) = 1 /\ HasMatch(JoinPredicates)
           ELSE IF d.a[5].type = "int" /\ d.a[5].i > 0 THEN
                /\ qsql.err = "none"
                /\ Len(JoinPredicates) = 2 /\ HasMatch(JoinPredicates)
                /\ \E i \in DOMAIN JoinPredicates :
                       /\ JoinPredicates[i].fn = "vectorsearch_probes"
                       /\ JoinPredicates[i].n = d.a[5].i
           ELSE qsql.err = InvalidQuery

\* ===================================================================
\* Properties of the document enumerator (specification EnumSpec)
\* ===================================================================

\* the keys next() stopped on, as a set
Yielded == {eyielded[i] : i \in DOMAIN eyielded}

\* the keys of the records the options of the enumerator let through
Expected ==
    {i \in DOMAIN erecs :
        /\ kC4IncludeDeleted \in eflags \/ ~erecs[i].deleted
        /\ kC4IncludeNonConflicted \in eflags \/ erecs[i].conflicted
        /\ esince = NoSince \/ erecs[i].sequence > esince}

\* C15: the enumerator only moves forward and its end is absorbing: once
\* close() was called or next() returned false, next() and getDocumentInfo()
\* return false and getDocument() returns nothing, without any error.
C15_EndAbsorbing ==
    /\ \A i, j \in DOMAIN eyielded : i # j => eyielded[i] # eyielded[j]
    /\ eended # "no"
          => /\ eimpl = nullptr
             /\ eret.op \in {"next", "getDocumentInfo", "getDocument"}
                   => "err" \notin DOMAIN eret
             /\ eret.op \in {"next", "getDocumentInfo"} => eret.result = FALSE
             /\ eret.op = "getDocument" => eret.doc = nullptr

\* getDocumentInfo() returned false on an enumerator closed while it stood
\* on a record that was not the last
C15_Witness ==
    /\ eended = "closed"
    /\ eyielded # <<>> /\ Len(eyielded) < Cardinality(Expected)
    /\ eret.op = "getDocumentInfo" /\ eret.result = FALSE

\* C16: a deleted record is yielded only if kC4IncludeDeleted is set,
\* whatever the other flags are.
C16_DeletedOnlyIfIncluded ==
    /\ \A i \in DOMAIN eyielded :
          erecs[eyielded[i]].deleted => kC4IncludeDeleted \in eflags
    /\ (eret.op = "getDocumentInfo" /\ eret.result /\ "kDocDeleted" \in eret.info.flags)
          => kC4IncludeDeleted \in eflags

\* an enumeration without kC4IncludeDeleted, with other flags set, ran to its
\* end over a KeyStore holding a deleted record and yielded the other one
C16_Witness ==
    /\ kC4IncludeDeleted \notin eflags
    /\ {kC4Descending, kC4IncludeNonConflicted, kC4IncludeRevHistory} \subseteq eflags
    /\ Len(erecs) = 2 /\ erecs[1].deleted /\ ~erecs[2].deleted
    /\ esince = NoSince
    /\ eended = "exhausted" /\ eyielded = <<2>>

\* C17: without kC4IncludeNonConflicted only conflicted records are yielded;
\* with it conflicted and non-conflicted ones are.  The default options
\* include non-conflicted records and bodies and leave deleted records out.
C17_ConflictFilter ==
    /\ Yielded \subseteq Expected
    /\ eended = "exhausted" => Yielded = Expected
    /\ kC4IncludeNonConflicted \notin eflags
          => \A i \in DOMAIN eyielded : erecs[eyielded[i]].conflicted
    /\ eflags = kC4DefaultEnumeratorOptions
          => /\ eflags = {"kC4IncludeNonConflicted", "kC4IncludeBodies"}
             /\ eended = "exhausted"
                   => Yielded = {i \in DOMAIN erecs :
                                    /\ ~erecs[i].deleted
                                    /\ esince = NoSince \/ erecs[i].sequence > esince}
             /\ (eret.op = "getDocument" /\ eret.doc # nullptr) => eret.doc.body

\* an enumeration with the default options ran over a conflicted and a
\* non-conflicted record and yielded both
C17_Witness ==
    /\ eflags = kC4DefaultEnumeratorOptions
    /\ Len(erecs) = 2 /\ erecs[1].conflicted /\ ~erecs[2].conflicted
    /\ ~erecs[1].deleted /\ ~erecs[2].deleted
    /\ esince = NoSince
    /\ eended = "exhausted" /\ eyielded = <<1, 2>>

\* C18: c4db_delete on a handle whose reference count is greater than 1 reports
\* failure with Busy and does not delete the database file.
C18_DeleteBusyKeepsFile ==
    [][\A t \in LifeThreads, h \in LifeHandles :
          (c4db_delete_locked(t, h) /\ refCount[h] > 1)
              => (ret' = Ret("delete", FALSE, "Busy") /\ fileExists' = fileExists)]_vars

\* C19: close, free, delete, compact and rekey called on a handle whose
\* transaction level is > 0 fail with TransactionNotClosed, do not go on to
\* their operation (nothing of the database changes) and leave the transaction
\* level and the open transaction as they were.
C19_LegalOnlyOutsideTransaction ==
    [][\A t \in LifeThreads, h \in LifeHandles, op \in LifeOps :
          (IfNotInTransaction(t, h, op) /\ txLevel[h] > 0)
              => /\ ret' = Ret(op, FALSE, "TransactionNotClosed")
                 /\ pc' = pc
                 /\ lifeVars' = lifeVars
                 /\ txLevel' = txLevel /\ txOwner' = txOwner
                 /\ transaction' = transaction
                 /\ store' = store]_vars

\* a lifecycle call has failed inside an open transaction
C19_Witness ==
    /\ ret.op \in LifeOps /\ ret.ok = FALSE /\ ret.err = "TransactionNotClosed"
    /\ txLevel["h1"] > 0 /\ transaction["h1"] # NULL
    /\ dbOpen["h1"] /\ fileExists /\ ~compacted /\ encKey = NoKey

\* C20: over any interleaving of c4_setTempDir calls at most one call
\* succeeds, and every call that has failed failed with Unsupported.
C20_TempDirSetOnce ==
    /\ tsucceeded <= 1
    /\ \A t \in TempThreads : ~tret[t].ok => tret[t].err = "Unsupported"

\* C21: finishing an update whose updater has no row set or skipped fails
\* with Unsupported and does not mark the update finished (nor changes the
\* index).
C21_FinishWithoutRowsUnsupported ==
    [][(c4indexupdater_finish /\ Recorded(updater) = {})
          => /\ uret' = [op |-> "finish", ok |-> FALSE, err |-> "Unsupported"]
             /\ ~updater'.finished
             /\ indexed' = indexed]_vars

\* beginUpdate(index, 2) returned an updater of two rows, none set or
\* skipped, and finish on it was refused
C21_Witness ==
    /\ updater # nullptr
    /\ Len(updater.rows) = 2 /\ Recorded(updater) = {} /\ ~updater.finished
    /\ uret = [op |-> "finish", ok |-> FALSE, err |-> "Unsupported"]

\* ===================================================================
\* Properties of the KeyStore seen through the C API (specification KvSpec)
\* ===================================================================

\* lastSequence as committed: what a handle outside the Transaction reads
CommittedSequence == IF fileTxn = NoHandle THEN lastSequence ELSE saved.seq

StrictlyIncreasing(log) == \A i, j \in DOMAIN log : i < j => log[i] < log[j]

\* C22: over interleaved committed and aborted transactions the committed
\* lastSequence equals the number of committed mutations and never decreases,
\* and the sequences assigned by committed mutations are strictly increasing
\* in commit order (none is used twice).
C22_SequencesFollowCommits ==
    /\ [](/\ CommittedSequence = Len(commitLog)
          /\ StrictlyIncreasing(commitLog)
          /\ View("h2").seq = CommittedSequence)
    /\ [][CommittedSequence' >= CommittedSequence]_vars

\* one mutation is committed, a later one was rolled back, nothing is open
C22_Witness ==
    /\ Len(commitLog) = 1
    /\ undone > 0
    /\ fileTxn = NoHandle
    /\ lastSequence = 1

\* the last write to key k that a read through handle h comes after: its own
\* Transaction's, if that wrote the key, else the last committed one
LastWrite(h, k) ==
    IF fileTxn = h /\ pendingDoc[k] # Untouched THEN pendingDoc[k] ELSE committedDoc[k]

\* c4raw_get has returned, and the KeyStore did not throw
GetReturned == ret.op = "get" /\ ret.err # "Storage"

C24_RoundTrip ==
    (GetReturned /\ committedDoc[ret.key].found /\ LastWrite(ret.h, ret.key) = committedDoc[ret.key])
        => /\ ret.ok
           /\ ret.doc.key = committedDoc[ret.key].key
           /\ ret.doc.meta = committedDoc[ret.key].meta
           /\ ret.doc.body = committedDoc[ret.key].body

\* the reader got back a committed record whose meta is null and body is not
C24_Witness ==
    /\ GetReturned /\ ret.ok /\ ret.h = "h2"
    /\ committedDoc[ret.key] = RawDoc(ret.key, Null, "b")
    /\ ret.doc = [key |-> ret.key, meta |-> Null, body |-> "b"]

\* C25: c4db_purgeDoc on a handle that is not in a transaction fails with
\* NotInTransaction and leaves the KeyStore as it is; inside a transaction it
\* returns true if the key existed and fails with NotFound if it did not
\* (calls in which the KeyStore itself reports a fault set aside).
C25_PurgeDocNeedsTransaction ==
    [][\A docID \in Keys, out \in {"ok", "throw", "crash"} :
          (/\ c4db_purgeDoc(Writer, "h1", docID, out)
           /\ ~(out = "throw" /\ transaction["h1"] # NULL))
              => IF txLevel["h1"] = 0
                    THEN /\ ret' = Ret("purge", FALSE, "NotInTransaction")
                         /\ store' = store /\ lastSequence' = lastSequence
                    ELSE /\ ~crashed'
                         /\ ret' = IF store[docID].exists
                                      THEN Ret("purge", TRUE, "none")
                                      ELSE Ret("purge", FALSE, "NotFound")
                         /\ store'[docID] = NoDoc]_vars

\* ===================================================================
\* Properties of the transaction mutex (specification LockSpec)
\* ===================================================================

\* C26: a c4db_beginTransaction whose Transaction cannot be created leaves
\* the handle as it was before the call: the level back at 0, no Transaction,
\* and the transaction mutex not held.
C26_FailedBeginNoSideEffects ==
    [][\A t \in LifeThreads, h \in LifeHandles :
          (NewTransactionThrows(t, h) /\ pc[t] = "begin:new")
              => /\ ret' = Ret("begin", FALSE, "NotWriteable")
                 /\ txLevel'[h] = 0
                 /\ ~inTransaction(h)'
                 /\ transaction'[h] = NULL
                 /\ txOwner'[h] = NoThread /\ txCount'[h] = 0]_vars

\* C27: as long as every beginTransaction and endTransaction succeeded
\* (endTransaction at level 0, which returns false, included), the owning
\* thread holds the recursive transaction mutex exactly `level` times, and
\* nobody holds it at level 0.
C27_MutexBalance ==
    (faults = 0 /\ ~crashed)
        => \A h \in LifeHandles :
              /\ txCount[h] = txLevel[h]
              /\ (txLevel[h] = 0) <=> (txOwner[h] = NoThread)

\* thread T2 is two levels deep and holds the mutex twice
C27_Witness ==
    /\ faults = 0 /\ ~crashed
    /\ txLevel["h1"] = 2 /\ txCount["h1"] = 2 /\ txOwner["h1"] = "T2"
    /\ ret = Ret("begin", TRUE, "none")

\* C28: c4db_endTransaction on a handle at level 0 returns false with
\* NotInTransaction and changes nothing: level, Transaction, KeyStore and
\* the mutex stay as they were.
C28_EndAtLevelZero ==
    [][\A t \in LifeThreads, h \in LifeHandles, commit \in BOOLEAN :
          (c4db_endTransaction(t, h, commit) /\ txLevel[h] = 0)
              => /\ ret' = Ret("end", FALSE, "NotInTransaction")
                 /\ txLevel' = txLevel /\ transaction' = transaction
                 /\ txOwner' = txOwner /\ txCount' = txCount
                 /\ fileTxn' = fileTxn /\ saved' = saved
                 /\ store' = store /\ lastSequence' = lastSequence]_vars

\* endTransaction has failed at level 0 on a handle that nobody holds
C28_Witness ==
    /\ ret = Ret("end", FALSE, "NotInTransaction")
    /\ txLevel["h1"] = 0 /\ transaction["h1"] = NULL
    /\ txOwner["h1"] = NoThread /\ txCount["h1"] = 0

\* thread t completes an endTransaction or inTransaction call on handle h
EndsOrAsks(t, h) ==
    \/ \E commit \in BOOLEAN : c4db_endTransaction(t, h, commit)
    \/ c4db_isInTransaction(t, h)

\* a call of thread t on handle h that found it out of a transaction
NotInTransactionReported ==
    ret' \in {Ret("end", FALSE, "NotInTransaction"), Ret("isInTransaction", FALSE, "none")}

\* C29 (what the other thread can do): while a thread owns the transaction
\* mutex of a handle no other thread completes endTransaction or
\* inTransaction on it, and a thread that does not own it finds the handle
\* out of a transaction and changes neither level nor Transaction.
C29_OnlyOwnerEndsOrObserves ==
    [][\A t \in LifeThreads, h \in LifeHandles :
          (EndsOrAsks(t, h) /\ txOwner[h] # t)
              => /\ txOwner[h] = NoThread
                 /\ NotInTransactionReported
                 /\ txLevel' = txLevel /\ transaction' = transaction
                 /\ store' = store /\ lastSequence' = lastSequence]_vars

\* C29: a thread that does not own the open transaction neither ends nor
\* observes it; its endTransaction or inTransaction waits for the owner's
\* outermost endTransaction, after which it is free to run and reports that
\* the handle is not in a transaction.
C29_OtherThreadWaitsForOutermostEnd ==
    /\ C29_OnlyOwnerEndsOrObserves
    /\ [](\A h \in LifeHandles :
             (~crashed /\ txLevel[h] = 0 /\ Quiet(h)) => txOwner[h] = NoThread)

\* the step in which c4raw_put returns (after its c4db_beginTransaction
\* failed, or after its closing c4db_endTransaction), with `ok` whether its
\* set or del completed
PutReturns(ok) ==
    \/ ~ok /\ NewTransactionThrows(Writer, "h1") /\ pc[Writer] = "put:new"
    \/ \E key \in Keys, meta \in Metas, body \in Bodies :
          c4raw_put_body(Writer, "h1", key, meta, body, IF ok THEN "ok" ELSE "throw")

\* C30: c4raw_put leaves the transaction level where it found it, whether it
\* succeeds or fails, and returns true iff its set or del completed; at the
\* outermost level a failed put leaves the KeyStore as it was.
\* (pc = put:new or put:body: the level is one above that before the call.)
C30_PutBalanced ==
    [][\A ok \in BOOLEAN :
          PutReturns(ok)
              => /\ txLevel'["h1"] = txLevel["h1"] - 1
                 /\ ret'.op = "put" /\ ret'.ok = ok
                 /\ (~ok /\ txLevel'["h1"] = 0)
                        => (store' = saved.store \/ store' = store)]_vars

TypeOK ==
    /\ \A h \in Handles : txCount[h] >= txLevel[h] /\ txLevel[h] >= 0
    /\ \A h \in Handles : (txCount[h] = 0) <=> (txOwner[h] = NoThread)
====
